---- MODULE Spec2Model ----
(***************************************************************************)
(* papyrix-flasher: the SLIP framer (internal/slip), the ROM bootloader    *)
(* packet layer (internal/protocol) and the flash driver                   *)
(* (internal/flasher) as a state machine over a scripted serial port.      *)
(*                                                                         *)
(* Bytes are the integers 0..255; byte slices are sequences.               *)
(***************************************************************************)
EXTENDS Integers, Sequences, FiniteSets, TLC

VARIABLES
    fnPc,       \* position of the pure-function harness (SpecSlip)
    fnIn,       \* its input byte sequence
    fnOut,      \* its current output
    pc,         \* position of the flasher in Connect / FlashImageCompressed
    wire,       \* what the port saw during the current flasher call, in order
    rts,        \* RTS modem-control line
    dtr,        \* DTR modem-control line
    step,       \* next operation of the running ResetToBootloader
    attempt,    \* loop variable `attempt` of sync / of the per-block retry
    drain,      \* loop variable `i` of the drain loop in sync
    buffer,     \* local `buffer` of readResponse
    dropped,    \* frames the running readResponse extracted and passed over (under 10 bytes)
    rx,         \* bytes the device has sent that the port has not delivered yet
    lastResp,   \* what the last readResponse returned
    sendErr,    \* `sendErr` / the error the last sendCommand returned
    outstanding,\* a request was written and its readResponse has not returned
    failed,     \* failed attempts of the running sync
    faults,     \* failed sendCommand / write / read calls of the current FlashImageCompressed
    region,     \* arguments of FlashImageCompressed: address, len(data), compressedData
    seq,        \* loop variable `seq` of FlashImageCompressed
    ret,        \* what Connect / FlashImageCompressed / Reboot returned
    firmwareOnlyFlag, \* the --firmware-only flag of runFlash
    regionIndex \* how many of runFlash's regions FlashImageCompressed was called for

vars == <<fnPc, fnIn, fnOut, pc, wire, rts, dtr, step, attempt, drain, buffer, rx,
          lastResp, sendErr, outstanding, failed, faults, region, seq, ret,
          firmwareOnlyFlag, regionIndex, dropped>>

fnVars == <<fnPc, fnIn, fnOut>>

flVars == <<pc, wire, rts, dtr, step, attempt, drain, buffer, rx, lastResp, sendErr,
            outstanding, failed, faults, region, seq, ret, firmwareOnlyFlag, regionIndex,
            dropped>>

runVars == <<firmwareOnlyFlag, regionIndex>>

(***************************************************************************)
(* Bounds of the model.                                                    *)
(***************************************************************************)
\* longest byte sequence given to the framer
MaxLen == 3
\* compressed streams of up to MaxBlocks full blocks (plus one byte)
MaxBlocks == 2

Min(a, b) == IF a < b THEN a ELSE b

\* F applied to the value of v.  The loops over byte slices below run their
\* first half, then their second half on the first half's result; Pipe makes
\* the first half a value before the second starts, so that TLC's evaluation
\* depth stays logarithmic in the slice's length.
Pipe(v, F(_)) == CHOOSE y \in {F(x) : x \in {v}} : TRUE

(***************************************************************************)
(* internal/slip                                                           *)
(***************************************************************************)
End == 192
Esc == 219
EscEnd == 220
EscEsc == 221

\* One iteration of Encode's loop: the switch on b appends to result.
\* A wrong Encode loop body, kept to show the round trip notices it: Esc is
\* copied without its escape.
EncodeByteNoEscEsc(result, b) ==
    IF b = End THEN result \o <<Esc, EscEnd>>
    ELSE Append(result, b)

EncodeByte(result, b) ==
    IF b = End THEN result \o <<Esc, EscEnd>>
    ELSE IF b = Esc THEN result \o <<Esc, EscEsc>>
    ELSE Append(result, b)

\* Encode's loop over data[lo..hi], left to right, threading result.
RECURSIVE EncodeRange(_, _, _, _)
EncodeRange(data, lo, hi, result) ==
    IF lo > hi THEN result
    ELSE IF lo = hi THEN EncodeByte(result, data[lo])
    ELSE LET mid == (lo + hi) \div 2
         IN  Pipe(EncodeRange(data, lo, mid, result),
                  LAMBDA left : EncodeRange(data, mid + 1, hi, left))

\* A wrong Encode: the closing End is left out.
EncodeUnclosed(data) == EncodeRange(data, 1, Len(data), <<End>>)

Encode(data) == Append(EncodeRange(data, 1, Len(data), <<End>>), End)

\* Decode: the two strip loops (0-based start/end of the source become the
\* 1-based first and last kept positions).
RECURSIVE StripStart(_, _, _)
StripStart(frame, start, end) ==
    IF start < end /\ frame[start + 1] = End
    THEN StripStart(frame, start + 1, end)
    ELSE start

RECURSIVE StripEnd(_, _, _)
StripEnd(frame, start, end) ==
    IF end > start /\ frame[end] = End
    THEN StripEnd(frame, start, end - 1)
    ELSE end

\* A wrong DecodeStep: an unknown escape keeps its Esc.
DecodeStepKeepsEsc(data, i, result) ==
    IF data[i] = Esc /\ i + 1 <= Len(data)
    THEN <<i + 2,
           IF data[i + 1] = EscEnd THEN Append(result, End)
           ELSE IF data[i + 1] = EscEsc THEN Append(result, Esc)
           ELSE result \o <<Esc, data[i + 1]>> >>
    ELSE <<i + 1, Append(result, data[i])>>

\* One iteration of Decode's unescape loop at 1-based index i: <<i', result'>>.
DecodeStep(data, i, result) ==
    IF data[i] = Esc /\ i + 1 <= Len(data)
    THEN <<i + 2,
           Append(result, IF data[i + 1] = EscEnd THEN End
                          ELSE IF data[i + 1] = EscEsc THEN Esc
                          ELSE data[i + 1])>>
    ELSE <<i + 1, Append(result, data[i])>>

\* The unescape loop from index i until the index reaches stop, threading
\* <<i, result>>.
RECURSIVE DecodeRange(_, _, _, _)
DecodeRange(data, i, stop, result) ==
    IF i >= stop THEN <<i, result>>
    ELSE IF stop - i = 1 THEN DecodeStep(data, i, result)
    ELSE LET mid == (i + stop) \div 2
         IN  Pipe(DecodeRange(data, i, mid, result),
                  LAMBDA left : DecodeRange(data, left[1], stop, left[2]))

\* nil and the empty slice are both the empty sequence.
Decode(frame) ==
    IF Len(frame) < 2 THEN <<>>
    ELSE LET start == StripStart(frame, 0, Len(frame))
             end   == StripEnd(frame, start, Len(frame))
         IN  IF start >= end THEN <<>>
             ELSE LET data == SubSeq(frame, start + 1, end)
                  IN  DecodeRange(data, 1, Len(data) + 1, <<>>)[2]

\* A wrong FindStart: of a run of End bytes only the last one opens the frame.
RECURSIVE FindStartSkipsRun(_, _)
FindStartSkipsRun(data, i) ==
    IF i >= Len(data) THEN -1
    ELSE IF data[i + 1] = End /\ (i + 1 >= Len(data) \/ data[i + 2] # End) THEN i
    ELSE FindStartSkipsRun(data, i + 1)

\* ReadFrame's first loop: 0-based index of the first End at or after i, or -1.
RECURSIVE FindStart(_, _)
FindStart(data, i) ==
    IF i >= Len(data) THEN -1
    ELSE IF data[i + 1] = End THEN i
    ELSE FindStart(data, i + 1)

\* A wrong FindClose: any End after the opening one closes the frame.
RECURSIVE FindCloseAnyEnd(_, _, _)
FindCloseAnyEnd(data, i, inFrame) ==
    IF i >= Len(data) THEN -1
    ELSE IF data[i + 1] = End
         THEN IF inFrame THEN i ELSE FindCloseAnyEnd(data, i + 1, TRUE)
         ELSE FindCloseAnyEnd(data, i + 1, TRUE)

\* ReadFrame's second loop from 0-based index i: the 0-based index of the
\* closing End, or -1 when the frame is not complete yet.
RECURSIVE FindClose(_, _, _)
FindClose(data, i, inFrame) ==
    IF i >= Len(data) THEN -1
    ELSE IF data[i + 1] = End
         THEN IF inFrame THEN i ELSE FindClose(data, i + 1, inFrame)
         ELSE FindClose(data, i + 1, TRUE)

\* A wrong ReadFrame: an incomplete frame is handed back without the bytes
\* up to and including its opening End.
ReadFrameTrimmed(data) ==
    LET start == FindStart(data, 0)
    IN  IF start = -1
        THEN [found |-> FALSE, frame |-> <<>>, remaining |-> data]
        ELSE LET i == FindClose(data, start, FALSE)
             IN  IF i = -1
                 THEN [found |-> FALSE, frame |-> <<>>,
                       remaining |-> SubSeq(data, start + 2, Len(data))]
                 ELSE [found |-> TRUE,
                       frame |-> SubSeq(data, start + 1, i + 1),
                       remaining |-> SubSeq(data, i + 2, Len(data))]

\* A wrong ReadFrame: the frame runs to the last End of the data, not to the
\* first End after its content.
ReadFrameToLastEnd(data) ==
    LET start == FindStart(data, 0)
    IN  IF start = -1
        THEN [found |-> FALSE, frame |-> <<>>, remaining |-> data]
        ELSE LET i == FindClose(data, start, FALSE)
             IN  IF i = -1
                 THEN [found |-> FALSE, frame |-> <<>>, remaining |-> data]
                 ELSE LET last == CHOOSE j \in (i + 1)..Len(data) :
                                      /\ data[j] = End
                                      /\ \A k \in (j + 1)..Len(data) : data[k] # End
                      IN  [found |-> TRUE,
                           frame |-> SubSeq(data, start + 1, last),
                           remaining |-> SubSeq(data, last + 1, Len(data))]

\* frame = nil is found = FALSE (a returned frame is never empty).
ReadFrame(data) ==
    LET start == FindStart(data, 0)
    IN  IF start = -1
        THEN [found |-> FALSE, frame |-> <<>>, remaining |-> data]
        ELSE LET i == FindClose(data, start, FALSE)
             IN  IF i = -1
                 THEN [found |-> FALSE, frame |-> <<>>, remaining |-> data]
                 ELSE [found |-> TRUE,
                       frame |-> SubSeq(data, start + 1, i + 1),
                       remaining |-> SubSeq(data, i + 2, Len(data))]

(***************************************************************************)
(* internal/protocol                                                       *)
(***************************************************************************)
CmdFlashEnd == 4
CmdSync == 8
CmdSpiSetParams == 11
CmdSpiAttach == 13
CmdFlashDeflBegin == 16
CmdFlashDeflData == 17
CmdFlashDeflEnd == 18

DirRequest == 0
DirResponse == 1

FlashBlockSize == 1024
FlashSectorSize == 4096

\* encoding/binary.LittleEndian.PutUint16 / PutUint32 of an unsigned value
LE16(v) == <<v % 256, (v \div 256) % 256>>

LE32(v) == <<v % 256, (v \div 256) % 256, (v \div 65536) % 256, (v \div 16777216) % 256>>

\* encoding/binary.LittleEndian.Uint16 / Uint32 of the bytes at 0-based offset off
Uint16At(data, off) == data[off + 1] + 256 * data[off + 2]

Uint32At(data, off) ==
    data[off + 1] + 256 * data[off + 2] + 65536 * data[off + 3] + 16777216 * data[off + 4]

\* Go's conversion uint32(x) of a non-negative int: x mod 2^32, as the low
\* and the high 16 bits
U32(x) == (x % 65536) + 65536 * ((x \div 65536) % 65536)

\* a ^ b on bytes
RECURSIVE Xor(_, _)
Xor(a, b) ==
    IF a = 0 THEN b
    ELSE IF b = 0 THEN a
    ELSE (((a % 2) + (b % 2)) % 2) + 2 * Xor(a \div 2, b \div 2)

\* calculateChecksum's loop over r.Data[lo..hi], left to right, threading
\* checksum.
RECURSIVE ChecksumRange(_, _, _, _)
ChecksumRange(data, lo, hi, checksum) ==
    IF lo > hi THEN checksum
    ELSE IF lo = hi THEN Xor(checksum, data[lo])
    ELSE LET mid == (lo + hi) \div 2
         IN  Pipe(ChecksumRange(data, lo, mid, checksum),
                  LAMBDA left : ChecksumRange(data, mid + 1, hi, left))

\* A wrong calculateChecksum: the accumulator starts at 0.
calculateChecksumNoSeed(data) == ChecksumRange(data, 1, Len(data), 0)

calculateChecksum(data) == ChecksumRange(data, 1, Len(data), 239)

NewRequest(cmd, data) ==
    [Command |-> cmd, Data |-> data, Checksum |-> calculateChecksum(data)]

\* A wrong Request.Encode: the size is written high byte first.
RequestEncodeBigEndian(r) ==
    <<DirRequest, r.Command>> \o <<(Len(r.Data) \div 256) % 256, Len(r.Data) % 256>>
        \o LE32(r.Checksum) \o r.Data

\* Request.Encode
RequestEncode(r) ==
    <<DirRequest, r.Command>> \o LE16(Len(r.Data) % 65536) \o LE32(r.Checksum) \o r.Data

\* A wrong DecodeResponse: the direction byte is not looked at.
DecodeResponseAnyDirection(data) ==
    LET none == [Command |-> 0, Data |-> <<>>, Value |-> 0, Status |-> 0, Error |-> 0]
    IN  IF Len(data) < 10
        THEN [err |-> "response too short", resp |-> none]
        ELSE LET dataSize == Uint16At(data, 2)
             IN  IF dataSize > Len(data) - 8
                 THEN [err |-> "data size mismatch", resp |-> none]
                 ELSE [err |-> "",
                       resp |-> [Command |-> data[2],
                                 Value   |-> Uint32At(data, 4),
                                 Data    |-> IF dataSize >= 2
                                             THEN SubSeq(data, 9, 8 + dataSize - 2)
                                             ELSE IF dataSize > 0
                                             THEN SubSeq(data, 9, 8 + dataSize)
                                             ELSE <<>>,
                                 Status  |-> IF dataSize >= 2
                                             THEN data[8 + dataSize - 2 + 1] ELSE 0,
                                 Error   |-> IF dataSize >= 2
                                             THEN data[8 + dataSize - 1 + 1] ELSE 0]]

\* DecodeResponse: err = "" is a nil error.
DecodeResponse(data) ==
    LET none == [Command |-> 0, Data |-> <<>>, Value |-> 0, Status |-> 0, Error |-> 0]
    IN  IF Len(data) < 10
        THEN [err |-> "response too short", resp |-> none]
        ELSE IF data[1] # DirResponse
        THEN [err |-> "invalid direction byte", resp |-> none]
        ELSE LET dataSize == Uint16At(data, 2)
             IN  IF dataSize > Len(data) - 8
                 THEN [err |-> "data size mismatch", resp |-> none]
                 ELSE [err |-> "",
                       resp |-> [Command |-> data[2],
                                 Value   |-> Uint32At(data, 4),
                                 Data    |-> IF dataSize >= 2
                                             THEN SubSeq(data, 9, 8 + dataSize - 2)
                                             ELSE IF dataSize > 0
                                             THEN SubSeq(data, 9, 8 + dataSize)
                                             ELSE <<>>,
                                 Status  |-> IF dataSize >= 2
                                             THEN data[8 + dataSize - 2 + 1] ELSE 0,
                                 Error   |-> IF dataSize >= 2
                                             THEN data[8 + dataSize - 1 + 1] ELSE 0]]

\* A wrong IsSuccess: the error byte is not looked at.
IsSuccessStatusOnly(r) == r.Status = 0

\* Response.IsSuccess
IsSuccess(r) == r.Status = 0 /\ r.Error = 0

\* A wrong SyncData: the header bytes in another order.
SyncDataReordered == <<7, 7, 32, 18>> \o [i \in 1..32 |-> 85]

SyncData == <<7, 7, 18, 32>> \o [i \in 1..32 |-> 85]

\* A wrong FlashEndData: the flag is written as it is, 1 for a reboot.
FlashEndDataAsIs(reboot) == IF reboot THEN LE32(1) ELSE LE32(0)

FlashEndData(reboot) == IF reboot THEN LE32(0) ELSE LE32(1)

SpiAttachData == [i \in 1..8 |-> 0]

SpiSetParamsData(totalSize) ==
    LE32(0) \o LE32(totalSize) \o LE32(65536) \o LE32(4096) \o LE32(256) \o LE32(65535)

FlashDeflBeginData(eraseSize, numBlocks, blockSize, offset) ==
    LE32(eraseSize) \o LE32(numBlocks) \o LE32(blockSize) \o LE32(offset)

\* A wrong FlashDeflDataData: the sequence number comes first.
FlashDeflDataDataSeqFirst(compressedData, s) ==
    LE32(s) \o LE32(U32(Len(compressedData))) \o LE32(0) \o LE32(0) \o compressedData

FlashDeflDataData(compressedData, s) ==
    LE32(U32(Len(compressedData))) \o LE32(s) \o LE32(0) \o LE32(0) \o compressedData

\* A wrong FlashDeflEndData: the two values exchanged.
FlashDeflEndDataSwapped(reboot) == IF reboot THEN LE32(1) ELSE LE32(0)

FlashDeflEndData(reboot) == IF reboot THEN LE32(0) ELSE LE32(1)

CalculateDeflBlocks(compressedLen, blockSize) ==
    U32((compressedLen + blockSize - 1) \div blockSize)

\* A wrong CalculateEraseSize: rounds down to the sector boundary.
CalculateEraseSizeDown(dataLen) ==
    U32((dataLen \div FlashSectorSize) * FlashSectorSize)

CalculateEraseSize(dataLen) ==
    U32(((dataLen + FlashSectorSize - 1) \div FlashSectorSize) * FlashSectorSize)

(***************************************************************************)
(* Go's int on the 64-bit builds of the Makefile, and uint32, beyond the   *)
(* range of the checker's integers: a value is its four 16-bit limbs, low  *)
(* limb first. Values stay below 2^63, so that int is never negative.      *)
(***************************************************************************)
Limb == 65536

\* the int of a small non-negative number
Wide(n) == <<n % Limb, (n \div Limb) % Limb, 0, 0>>

\* a + b
WideAdd(a, b) ==
    LET s1 == a[1] + b[1]
        s2 == a[2] + b[2] + (s1 \div Limb)
        s3 == a[3] + b[3] + (s2 \div Limb)
        s4 == a[4] + b[4] + (s3 \div Limb)
    IN  <<s1 % Limb, s2 % Limb, s3 % Limb, s4 % Limb>>

\* a / d and a % d for a small positive d, by long division from the top limb
WideDivMod(a, d) ==
    LET c4 == a[4]
        c3 == (c4 % d) * Limb + a[3]
        c2 == (c3 % d) * Limb + a[2]
        c1 == (c2 % d) * Limb + a[1]
    IN  [quot |-> <<c1 \div d, c2 \div d, c3 \div d, c4 \div d>>, rem |-> c1 % d]

WideDiv(a, d) == WideDivMod(a, d).quot

WideMod(a, d) == WideDivMod(a, d).rem

\* a * m for a small positive m
WideMul(a, m) ==
    LET p1 == a[1] * m
        p2 == a[2] * m + (p1 \div Limb)
        p3 == a[3] * m + (p2 \div Limb)
        p4 == a[4] * m + (p3 \div Limb)
    IN  <<p1 % Limb, p2 % Limb, p3 % Limb, p4 % Limb>>

\* the conversion uint32(a): the low 32 bits
WideU32(a) == <<a[1], a[2], 0, 0>>

\* packet.go: CalculateDeflBlocks
CalculateDeflBlocksWide(compressedLen, blockSize) ==
    WideU32(WideDiv(WideAdd(compressedLen, Wide(blockSize - 1)), blockSize))

\* A wrong CalculateEraseSize: a whole number of sectors gets one more.
CalculateEraseSizeWideOneMore(dataLen) ==
    WideU32(WideMul(WideDiv(WideAdd(dataLen, Wide(FlashSectorSize)), FlashSectorSize),
                    FlashSectorSize))

\* packet.go: CalculateEraseSize
CalculateEraseSizeWide(dataLen) ==
    WideU32(WideMul(WideDiv(WideAdd(dataLen, Wide(FlashSectorSize - 1)), FlashSectorSize),
                    FlashSectorSize))

\* A wrong CalculateFlashBlocks: the last, partial block is not counted.
CalculateFlashBlocksWideDown(size) == WideU32(WideDiv(size, FlashBlockSize))

\* esp32c3.go: CalculateFlashBlocks
CalculateFlashBlocksWide(size) ==
    LET blocks == WideDiv(size, FlashBlockSize)
    IN  WideU32(IF WideMod(size, FlashBlockSize) # 0 THEN WideAdd(blocks, Wide(1)) ELSE blocks)

\* esp32c3.go: CalculateEraseSize
CalculateEraseSizeC3Wide(size) ==
    LET sectors == WideDiv(size, FlashSectorSize)
    IN  WideU32(WideMul(IF WideMod(size, FlashSectorSize) # 0
                        THEN WideAdd(sectors, Wide(1)) ELSE sectors,
                        FlashSectorSize))

(***************************************************************************)
(* The scripted serial port (go.bug.st/serial behind internal/serial.Port) *)
(* and the deflate codec are external: what they return is chosen by the   *)
(* environment from the sets below.                                        *)
(***************************************************************************)
\* one entry of `wire`: a call the port received, with its argument
Ev(op, arg) == [op |-> op, arg |-> arg]

\* a response packet of the ROM, before framing
RespBytes(dir, cmd, size, tail) == <<dir, cmd>> \o LE16(size) \o LE32(0) \o tail

\* the answers the device gives while the flasher waits for the answer to cmd
GoodFrame(cmd) == Encode(RespBytes(DirResponse, cmd, 2, <<0, 0>>))

OtherCmd(cmd) == IF cmd = CmdSync THEN CmdSpiAttach ELSE CmdSync

Messages(cmd) ==
    { GoodFrame(cmd),                                          \* success
      Encode(RespBytes(DirResponse, cmd, 2, <<1, 7>>)),        \* status=1, error=invalid CRC
      GoodFrame(OtherCmd(cmd)),                                \* success echo of another opcode
      Encode(RespBytes(DirRequest, cmd, 2, <<0, 0>>)),         \* wrong direction byte
      Encode(RespBytes(DirResponse, cmd, 9, <<0, 0>>)),        \* declared size exceeds the bytes
      Encode(<<DirResponse, cmd>>) \o GoodFrame(cmd) }         \* a runt frame, then success

\* What one port read delivers, <<chunk, rest>>: the bytes still pending; or
\* else a new message of the device, whole, or the first half of a success
\* frame, whose rest stays pending.
Deliveries(cmd) ==
    IF rx # <<>>
    THEN {<<rx, <<>> >>}
    ELSE {<<m, <<>> >> : m \in Messages(cmd)}
         \cup {<<SubSeq(GoodFrame(cmd), 1, 6), SubSeq(GoodFrame(cmd), 7, Len(GoodFrame(cmd)))>>}

\* the compressed stream zlib produced: L bytes that run through 0..250
Stream(L) == [i \in 1..L |-> (i - 1) % 251]

BootloaderAddress == 0
PartitionsAddress == 32768
FirmwareAddress == 65536

Addresses == <<BootloaderAddress, PartitionsAddress, FirmwareAddress>>

\* (address, len(data), compressedData) of the regions given to
\* FlashImageCompressed: lengths around the sector and block boundaries
RegionInputs ==
    { [Address |-> FirmwareAddress, DataLen |-> n, Comp |-> Stream(11 + n)] : n \in {0, 1} }
    \cup
    { [Address |-> Addresses[((k + d) % 3) + 1],
       DataLen |-> k * FlashSectorSize + d,
       Comp    |-> Stream(k * FlashBlockSize + d)] : k \in 1..MaxBlocks, d \in {-1, 0, 1} }

NoResp == [err |-> "", resp |-> [Command |-> 0, Data |-> <<>>, Value |-> 0, Status |-> 0, Error |-> 0]]

NoRegion == [Address |-> 0, DataLen |-> 0, Comp |-> <<>>]

NoRet == [fn |-> "", err |-> "", block |-> -1]

(***************************************************************************)
(* internal/serial: Port.ResetToBootloader                                 *)
(***************************************************************************)
\* A wrong ResetSeq: the input buffer is flushed before the lines are released.
ResetSeqFlushEarly ==
    << Ev("rts", TRUE),  Ev("dtr", FALSE), Ev("sleep", 100),
       Ev("rts", FALSE), Ev("dtr", TRUE),  Ev("sleep", 50),
       Ev("rts", TRUE),  Ev("dtr", FALSE), Ev("sleep", 50),
       Ev("flush", 0),
       Ev("rts", FALSE), Ev("dtr", FALSE),
       Ev("sleep", 100) >>

\* the calls of ResetToBootloader, in program order
ResetSeq ==
    << Ev("rts", TRUE),  Ev("dtr", FALSE), Ev("sleep", 100),
       Ev("rts", FALSE), Ev("dtr", TRUE),  Ev("sleep", 50),
       Ev("rts", TRUE),  Ev("dtr", FALSE), Ev("sleep", 50),
       Ev("rts", FALSE), Ev("dtr", FALSE),
       Ev("flush", 0),   Ev("sleep", 100) >>

(***************************************************************************)
(* internal/flasher                                                        *)
(***************************************************************************)
\* Wrong loop limits: one attempt more than the code makes.
SyncAttemptsOneMore == 10 + 1

BlockAttemptsOneMore == 3 + 1

SyncAttempts == 10

\* A wrong drain loop: one read more than the code makes.
DrainReadsOneMore == 7 + 1

DrainReads == 7
BlockAttempts == 3
FlashSize == 16 * 1024 * 1024

\* numBlocks and eraseSize of FlashImageCompressed
NumBlocks(r) == CalculateDeflBlocks(Len(r.Comp), FlashBlockSize)

EraseSize(r) == CalculateEraseSize(r.DataLen)

\* A wrong block slice: the last block is padded with 0xFF to a full block.
BlockPadded(r, s) ==
    LET start == s * FlashBlockSize
        end   == Min(start + FlashBlockSize, Len(r.Comp))
    IN  SubSeq(r.Comp, start + 1, end) \o [i \in 1..(start + FlashBlockSize - end) |-> 255]

\* compressedData[start:end] of block s
Block(r, s) ==
    LET start == s * FlashBlockSize
        end   == Min(start + FlashBlockSize, Len(r.Comp))
    IN  SubSeq(r.Comp, start + 1, end)

\* the request a position of the flasher sends
RequestAt(p) ==
    CASE p = "sync"   -> NewRequest(CmdSync, SyncData)
      [] p = "attach" -> NewRequest(CmdSpiAttach, SpiAttachData)
      [] p = "params" -> NewRequest(CmdSpiSetParams, SpiSetParamsData(FlashSize))
      [] p = "begin"  -> NewRequest(CmdFlashDeflBegin,
                             FlashDeflBeginData(EraseSize(region), NumBlocks(region),
                                                U32(FlashBlockSize), region.Address))
      [] p = "block"  -> NewRequest(CmdFlashDeflData,
                             FlashDeflDataData(Block(region, seq), U32(seq)))
      [] p = "end"    -> NewRequest(CmdFlashDeflEnd, FlashDeflEndData(FALSE))
      [] p = "reboot" -> NewRequest(CmdFlashEnd, FlashEndData(TRUE))

\* slip.Encode(req.Encode()) of that request
FrameAt(p) == Encode(RequestEncode(RequestAt(p)))

\* the positions at which a readResponse is running, and who called it
ReadPos == {"sync", "drain", "attach", "params", "begin", "block", "end"}

\* A wrong call site: SPI_ATTACH does not wait for its response.
ReadingNotAwaited(p) == IF p = "attach" THEN "params" ELSE p \o "_read"

Reading(p) == p \o "_read"

Returned(p) == p \o "_resp"

AwaitedCmd(p) == IF p = "drain" THEN CmdSync ELSE RequestAt(p).Command

\* the flasher and its port after New(port), before Connect
InitFlasher ==
    /\ pc = "idle"
    /\ wire = <<>>
    /\ rts = FALSE /\ dtr = FALSE
    /\ step = 0 /\ attempt = 0 /\ drain = 0
    /\ buffer = <<>> /\ rx = <<>>
    /\ dropped = 0
    /\ lastResp = NoResp
    /\ sendErr = ""
    /\ outstanding = FALSE
    /\ failed = 0 /\ faults = 0
    /\ region = NoRegion
    /\ seq = 0
    /\ ret = NoRet
    /\ firmwareOnlyFlag \in BOOLEAN
    /\ regionIndex = 0

Init ==
    /\ fnPc = "off" /\ fnIn = <<>> /\ fnOut = <<>>
    /\ InitFlasher

\* Connect is called: ResetToBootloader starts.
Connect ==
    /\ pc = "idle"
    /\ pc' = "reset"
    /\ step' = 1
    /\ UNCHANGED <<fnVars, runVars, dropped, wire, rts, dtr, attempt, drain, buffer, rx, lastResp, sendErr,
                   outstanding, failed, faults, region, seq, ret>>

\* One call of ResetToBootloader succeeds; after the last the sync loop starts.
ResetToBootloader ==
    /\ pc = "reset"
    /\ LET e == ResetSeq[step]
       IN  /\ wire' = Append(wire, e)
           /\ rts' = IF e.op = "rts" THEN e.arg ELSE rts
           /\ dtr' = IF e.op = "dtr" THEN e.arg ELSE dtr
           /\ rx'  = IF e.op = "flush" THEN <<>> ELSE rx
    /\ IF step = Len(ResetSeq)
       THEN pc' = "sync" /\ step' = 0
       ELSE pc' = pc /\ step' = step + 1
    /\ UNCHANGED <<fnVars, runVars, dropped, attempt, drain, buffer, lastResp, sendErr, outstanding,
                   failed, faults, region, seq, ret>>

\* SetRTS or SetDTR returns an error: ResetToBootloader and Connect return it.
ResetLineError ==
    /\ pc = "reset"
    /\ ResetSeq[step].op \in {"rts", "dtr"}
    /\ pc' = "aborted"
    /\ ret' = [fn |-> "Connect", err |-> "failed to reset into bootloader", block |-> -1]
    /\ UNCHANGED <<fnVars, runVars, dropped, wire, rts, dtr, step, attempt, drain, buffer, rx, lastResp,
                   sendErr, outstanding, failed, faults, region, seq>>

(***************************************************************************)
(* readResponse, called at position p (pc = Reading(p)); it returns to     *)
(* pc = Returned(p) with its result in lastResp.                           *)
(***************************************************************************)
\* The rest of a loop iteration after the port read left the buffer as buf:
\* try to extract a frame; return when it decodes to at least 10 bytes.
ExtractAndReturn(p, buf) ==
    LET rf   == ReadFrame(buf)
        data == Decode(rf.frame)
    IN  IF rf.found /\ Len(data) >= 10
        THEN /\ lastResp' = DecodeResponse(data)
             /\ pc' = Returned(p)
             /\ buffer' = <<>>
             /\ dropped' = 0
             /\ outstanding' = FALSE
        ELSE /\ buffer' = IF rf.found THEN rf.remaining ELSE buf
             /\ dropped' = IF rf.found THEN dropped + 1 ELSE dropped
             /\ UNCHANGED <<pc, lastResp, outstanding>>

\* ReadWithTimeout returned n > 0 bytes.
ReadChunk(p) ==
    /\ pc = Reading(p)
    /\ \E d \in Deliveries(AwaitedCmd(p)) :
          /\ rx' = d[2]
          /\ ExtractAndReturn(p, buffer \o d[1])
    /\ UNCHANGED <<fnVars, runVars, wire, rts, dtr, step, attempt, drain, sendErr, failed,
                   faults, region, seq, ret>>

\* ReadWithTimeout returned n = 0 and no error: the buffer is scanned again.
ReadNothing(p) ==
    /\ pc = Reading(p)
    /\ ExtractAndReturn(p, buffer)
    /\ UNCHANGED <<fnVars, runVars, wire, rts, dtr, step, attempt, drain, rx, sendErr, failed,
                   faults, region, seq, ret>>

\* ReadWithTimeout returned n = 0 and an error: `continue`.
ReadError(p) ==
    /\ pc = Reading(p)
    /\ UNCHANGED vars

\* The deadline has passed at the head of the loop.
ReadDeadline(p) ==
    /\ pc = Reading(p)
    /\ lastResp' = [NoResp EXCEPT !.err = "timeout waiting for response"]
    /\ pc' = Returned(p)
    /\ buffer' = <<>>
    /\ dropped' = 0
    /\ outstanding' = FALSE
    /\ UNCHANGED <<fnVars, runVars, wire, rts, dtr, step, attempt, drain, rx, sendErr, failed,
                   faults, region, seq, ret>>

readResponse ==
    \E p \in ReadPos : ReadChunk(p) \/ ReadNothing(p) \/ ReadError(p) \/ ReadDeadline(p)

(***************************************************************************)
(* Flasher.sync                                                            *)
(***************************************************************************)
\* The head of one pass of the loop: Flush, then Write(frame); a write error
\* is `continue`, else readResponse is called.
SyncWrite ==
    /\ pc = "sync"
    /\ attempt < SyncAttempts
    /\ wire' = wire \o <<Ev("flush", 0), Ev("write", FrameAt("sync"))>>
    /\ rx' = <<>>
    /\ \/ /\ pc' = Reading("sync")
          /\ outstanding' = TRUE
          /\ UNCHANGED <<attempt, failed>>
       \/ /\ attempt' = attempt + 1
          /\ failed' = failed + 1
          /\ UNCHANGED <<pc, outstanding>>
    /\ UNCHANGED <<fnVars, runVars, dropped, rts, dtr, step, drain, buffer, lastResp, sendErr, faults,
                   region, seq, ret>>

\* readResponse returned: an error, or an answer that is not a successful
\* SYNC, is `continue`; a successful SYNC answer enters the drain loop.
SyncResponse ==
    /\ pc = Returned("sync")
    /\ IF lastResp.err = "" /\ lastResp.resp.Command = CmdSync /\ IsSuccess(lastResp.resp)
       THEN /\ pc' = "sync_drain"
            /\ drain' = 0
            /\ UNCHANGED <<attempt, failed>>
       ELSE /\ pc' = "sync"
            /\ attempt' = attempt + 1
            /\ failed' = failed + 1
            /\ UNCHANGED drain
    /\ lastResp' = NoResp
    /\ UNCHANGED <<fnVars, runVars, dropped, wire, rts, dtr, step, buffer, rx, sendErr, outstanding,
                   faults, region, seq, ret>>

\* All attempts failed: sync returns its error and Connect wraps it.
SyncFail ==
    /\ pc = "sync"
    /\ attempt >= SyncAttempts
    /\ pc' = "aborted"
    /\ ret' = [fn |-> "Connect", err |-> "failed to sync with bootloader", block |-> -1]
    /\ UNCHANGED <<fnVars, runVars, dropped, wire, rts, dtr, step, attempt, drain, buffer, rx, lastResp,
                   sendErr, outstanding, failed, faults, region, seq>>

\* The drain loop: DrainReads more readResponse calls, their results ignored;
\* then sync returns nil and Connect goes on to spiAttach.
SyncDrain ==
    /\ pc = "sync_drain"
    /\ IF drain < DrainReads
       THEN pc' = Reading("drain")
       ELSE pc' = "attach"
    /\ UNCHANGED <<fnVars, runVars, dropped, wire, rts, dtr, step, attempt, drain, buffer, rx, lastResp,
                   sendErr, outstanding, failed, faults, region, seq, ret>>

SyncDrained ==
    /\ pc = Returned("drain")
    /\ drain' = drain + 1
    /\ pc' = "sync_drain"
    /\ lastResp' = NoResp
    /\ UNCHANGED <<fnVars, runVars, dropped, wire, rts, dtr, step, attempt, buffer, rx, sendErr,
                   outstanding, failed, faults, region, seq, ret>>

(***************************************************************************)
(* sendCommandWithTimeout at position p, and what its caller does with     *)
(* the error it returns ("" is nil).                                       *)
(***************************************************************************)
SendPos == {"attach", "params", "begin", "block"}

\* A wrong Connect: the error of spiAttach is ignored.
AfterConnectStepIgnoringAttach(p, err) ==
    /\ IF err # "" /\ p = "params"
       THEN /\ pc' = "aborted"
            /\ ret' = [fn |-> "Connect", err |-> "failed to set flash params", block |-> -1]
       ELSE IF p = "attach"
       THEN pc' = "params" /\ ret' = ret
       ELSE pc' = "connected" /\ ret' = [fn |-> "Connect", err |-> "", block |-> -1]
    /\ UNCHANGED <<attempt, faults, seq, rx>>

\* Connect after spiAttach / spiSetParams returned err
AfterConnectStep(p, err) ==
    /\ IF err # ""
       THEN /\ pc' = "aborted"
            /\ ret' = [fn |-> "Connect",
                       err |-> IF p = "attach" THEN "failed to attach SPI flash"
                                               ELSE "failed to set flash params",
                       block |-> -1]
       ELSE IF p = "attach"
       THEN pc' = "params" /\ ret' = ret
       ELSE pc' = "connected" /\ ret' = [fn |-> "Connect", err |-> "", block |-> -1]
    /\ UNCHANGED <<attempt, faults, seq, rx>>

\* A wrong FlashImageCompressed: the error of FLASH_DEFL_BEGIN is ignored.
AfterBeginIgnored(err) ==
    /\ pc' = "block"
    /\ seq' = 0
    /\ attempt' = 0
    /\ ret' = ret
    /\ UNCHANGED <<faults, rx>>

\* FlashImageCompressed after sendCommandWithTimeout(beginReq) returned err
AfterBegin(err) ==
    /\ IF err # ""
       THEN /\ pc' = "aborted"
            /\ ret' = [fn |-> "FlashImageCompressed", err |-> "flash defl begin failed",
                       block |-> -1]
            /\ UNCHANGED <<attempt, seq>>
       ELSE /\ pc' = "block"
            /\ seq' = 0
            /\ attempt' = 0
            /\ ret' = ret
    /\ UNCHANGED <<faults, rx>>

\* A wrong retry loop: a failed block restarts the region at sequence 0.
AfterBlockRestart(err) ==
    /\ IF err = ""
       THEN /\ seq' = seq + 1
            /\ attempt' = 0
            /\ UNCHANGED <<faults, rx>>
       ELSE /\ attempt' = attempt + 1
            /\ faults' = faults + 1
            /\ rx' = <<>>
            /\ seq' = 0
    /\ pc' = "block"
    /\ ret' = ret

\* The retry loop after sendCommand(blockReq) returned err: break and go to
\* the next seq, or Sleep, Flush and the next attempt.
AfterBlock(err) ==
    /\ IF err = ""
       THEN /\ seq' = seq + 1
            /\ attempt' = 0
            /\ UNCHANGED <<faults, rx>>
       ELSE /\ attempt' = attempt + 1
            /\ faults' = faults + 1
            /\ rx' = <<>>
            /\ UNCHANGED seq
    /\ pc' = "block"
    /\ ret' = ret

\* A wrong retry loop: the input is flushed before the wait.
BlockRetryCallsFlushFirst(err) == IF err = "" THEN <<>> ELSE <<Ev("flush", 0), Ev("sleep", 100)>>

\* what AfterBlock adds to the port's trace
BlockRetryCalls(err) == IF err = "" THEN <<>> ELSE <<Ev("sleep", 100), Ev("flush", 0)>>

\* sendCommand returned err at position p; w is the port's trace so far.
AfterSend(p, err, w) ==
    /\ sendErr' = err
    /\ wire' = IF p = "block" THEN w \o BlockRetryCalls(err) ELSE w
    /\ CASE p \in {"attach", "params"} -> AfterConnectStep(p, err)
         [] p = "begin" -> AfterBegin(err)
         [] p = "block" -> AfterBlock(err)

\* Write(frame): a write error is returned at once, else readResponse is called.
SendCommandWrite(p) ==
    /\ pc = p
    /\ p = "block" => seq < NumBlocks(region) /\ attempt < BlockAttempts
    /\ LET w == Append(wire, Ev("write", FrameAt(p)))
       IN  \/ /\ pc' = Reading(p)
              /\ outstanding' = TRUE
              /\ wire' = w
              /\ sendErr' = ""
              /\ UNCHANGED <<attempt, faults, seq, ret, rx>>
           \/ /\ AfterSend(p, "write error", w)
              /\ UNCHANGED outstanding
    /\ UNCHANGED <<fnVars, runVars, dropped, rts, dtr, step, drain, buffer, lastResp, failed, region>>

\* A wrong sendCommandWithTimeout: only the timeout of readResponse is an
\* error, a parser error is passed over.
SendResultTimeoutOnly(r) ==
    IF r.err = "timeout waiting for response" THEN r.err
    ELSE IF r.err = "" /\ ~IsSuccess(r.resp) THEN "command failed"
    ELSE ""

\* the error sendCommandWithTimeout returns for what readResponse returned
SendResult(r) ==
    IF r.err # "" THEN r.err
    ELSE IF ~IsSuccess(r.resp) THEN "command failed"
    ELSE ""

SendCommandResponse(p) ==
    /\ pc = Returned(p)
    /\ AfterSend(p, SendResult(lastResp), wire)
    /\ lastResp' = NoResp
    /\ UNCHANGED <<fnVars, runVars, dropped, rts, dtr, step, drain, buffer, outstanding, failed, region>>

sendCommand == \E p \in SendPos : SendCommandWrite(p) \/ SendCommandResponse(p)

(***************************************************************************)
(* Flasher.FlashImageCompressed                                            *)
(***************************************************************************)
\* A wrong region list: the firmware is flashed before the bootloader.
RegionsFirmwareFirst ==
    IF firmwareOnlyFlag
    THEN <<FirmwareAddress>>
    ELSE <<FirmwareAddress, BootloaderAddress, PartitionsAddress>>

\* the addresses of the regions runFlash flashes, in the order of its loop
Regions ==
    IF firmwareOnlyFlag
    THEN <<FirmwareAddress>>
    ELSE <<BootloaderAddress, PartitionsAddress, FirmwareAddress>>

\* runFlash's loop calls FlashImageCompressed for its next region:
\* the data is compressed, numBlocks and eraseSize are computed, and
\* FLASH_DEFL_BEGIN is about to be sent.
FlashImageCompressed ==
    /\ pc \in {"connected", "flashed"}
    /\ regionIndex < Len(Regions)
    /\ \E r \in RegionInputs :
          /\ r.Address = Regions[regionIndex + 1]
          /\ region' = r
    /\ regionIndex' = regionIndex + 1
    /\ pc' = "begin"
    /\ wire' = <<>>
    /\ seq' = 0 /\ attempt' = 0 /\ failed' = 0 /\ faults' = 0
    /\ sendErr' = ""
    /\ lastResp' = NoResp
    /\ ret' = NoRet
    /\ UNCHANGED <<fnVars, firmwareOnlyFlag, dropped, rts, dtr, step, drain, buffer, rx, outstanding>>

\* The retry loop ended with sendErr != nil: the error names the block.
BlockGiveUp ==
    /\ pc = "block"
    /\ seq < NumBlocks(region)
    /\ attempt >= BlockAttempts
    /\ pc' = "aborted"
    /\ ret' = [fn |-> "FlashImageCompressed", err |-> "flash defl data block failed",
               block |-> seq]
    /\ UNCHANGED <<fnVars, runVars, dropped, wire, rts, dtr, step, attempt, drain, buffer, rx, lastResp,
                   sendErr, outstanding, failed, faults, region, seq>>

\* All blocks are written: FLASH_DEFL_END is written (a write error is only
\* printed) and readResponse is called.
FlashDeflEnd ==
    /\ pc = "block"
    /\ seq >= NumBlocks(region)
    /\ wire' = Append(wire, Ev("write", FrameAt("end")))
    /\ \E ok \in BOOLEAN : outstanding' = ok
    /\ pc' = Reading("end")
    /\ UNCHANGED <<fnVars, runVars, dropped, rts, dtr, step, attempt, drain, buffer, rx, lastResp,
                   sendErr, failed, faults, region, seq, ret>>

\* readResponse returned (its error is only printed): return nil.
FlashDeflEndResponse ==
    /\ pc = Returned("end")
    /\ pc' = "flashed"
    /\ ret' = [fn |-> "FlashImageCompressed", err |-> "", block |-> -1]
    /\ UNCHANGED <<fnVars, runVars, dropped, wire, rts, dtr, step, attempt, drain, buffer, rx, lastResp,
                   sendErr, outstanding, failed, faults, region, seq>>

(***************************************************************************)
(* Flasher.Reboot, called by runFlash after its last region, and           *)
(* Port.HardReset                                                          *)
(***************************************************************************)
\* the calls of HardReset, in program order
HardResetSeq == << Ev("rts", TRUE), Ev("sleep", 100), Ev("rts", FALSE) >>

\* Reboot writes FLASH_END(reboot); a write error is returned at once, else
\* it sleeps and calls HardReset. No response is read.
Reboot ==
    /\ pc = "flashed"
    /\ regionIndex = Len(Regions)
    /\ LET w == <<Ev("write", FrameAt("reboot"))>>
       IN  \/ /\ wire' = w
              /\ pc' = "done"
              /\ ret' = [fn |-> "Reboot", err |-> "write error", block |-> -1]
              /\ UNCHANGED step
           \/ /\ wire' = Append(w, Ev("sleep", 100))
              /\ pc' = "hard_reset"
              /\ step' = 1
              /\ ret' = NoRet
    /\ lastResp' = NoResp
    /\ UNCHANGED <<fnVars, runVars, dropped, rts, dtr, attempt, drain, buffer, rx, sendErr,
                   outstanding, failed, faults, region, seq>>

\* One call of HardReset succeeds; after the last Reboot returns nil.
HardReset ==
    /\ pc = "hard_reset"
    /\ LET e == HardResetSeq[step]
       IN  /\ wire' = Append(wire, e)
           /\ rts' = IF e.op = "rts" THEN e.arg ELSE rts
    /\ IF step = Len(HardResetSeq)
       THEN /\ pc' = "done"
            /\ step' = 0
            /\ ret' = [fn |-> "Reboot", err |-> "", block |-> -1]
       ELSE /\ pc' = pc
            /\ step' = step + 1
            /\ ret' = ret
    /\ UNCHANGED <<fnVars, runVars, dropped, dtr, attempt, drain, buffer, rx, lastResp, sendErr,
                   outstanding, failed, faults, region, seq>>

\* SetRTS returns an error: HardReset and Reboot return it.
HardResetLineError ==
    /\ pc = "hard_reset"
    /\ HardResetSeq[step].op = "rts"
    /\ pc' = "done"
    /\ step' = 0
    /\ ret' = [fn |-> "Reboot", err |-> "line error", block |-> -1]
    /\ UNCHANGED <<fnVars, runVars, dropped, wire, rts, dtr, attempt, drain, buffer, rx, lastResp,
                   sendErr, outstanding, failed, faults, region, seq>>

Next ==
    \/ Connect
    \/ ResetToBootloader
    \/ ResetLineError
    \/ readResponse
    \/ SyncWrite
    \/ SyncResponse
    \/ SyncFail
    \/ SyncDrain
    \/ SyncDrained
    \/ sendCommand
    \/ FlashImageCompressed
    \/ BlockGiveUp
    \/ FlashDeflEnd
    \/ FlashDeflEndResponse
    \/ Reboot
    \/ HardReset
    \/ HardResetLineError

Spec == Init /\ [][Next]_vars

(***************************************************************************)
(* The slip package on its own: Encode is applied to an input, Decode to   *)
(* what Encode returned.                                                   *)
(***************************************************************************)
\* the bytes the framing treats specially, and two it does not
SlipBytes == {End, Esc, EscEnd, EscEsc, 0, 1}

SlipInputs == UNION {[1..n -> SlipBytes] : n \in 0..MaxLen}

InitSlip ==
    /\ fnPc = "input"
    /\ fnIn \in SlipInputs
    /\ fnOut = <<>>
    /\ InitFlasher

SlipEncode ==
    /\ fnPc = "input"
    /\ fnOut' = Encode(fnIn)
    /\ fnPc' = "encoded"
    /\ UNCHANGED <<fnIn, flVars>>

SlipDecode ==
    /\ fnPc = "encoded"
    /\ fnOut' = Decode(fnOut)
    /\ fnPc' = "decoded"
    /\ UNCHANGED <<fnIn, flVars>>

NextSlip == SlipEncode \/ SlipDecode

SpecSlip == InitSlip /\ [][NextSlip]_vars

(***************************************************************************)
(* Error texts. A Go string is the sequence of its characters.             *)
(***************************************************************************)
ErrInvalidMessage == 5
ErrFailedToAct == 6
ErrInvalidCRC == 7
ErrFlashWriteErr == 8
ErrFlashReadErr == 9
ErrFlashReadLenErr == 10
ErrDeflateError == 11

\* A wrong ErrorMessage: the table is shifted by one code.
ErrorMessageShifted(code) ==
    CASE code = ErrInvalidMessage  -> <<"f", "a", "i", "l", "e", "d", " ", "t", "o", " ", "a", "c", "t">>
      [] code = ErrFailedToAct     -> <<"i", "n", "v", "a", "l", "i", "d", " ", "C", "R", "C">>
      [] code = ErrInvalidCRC      -> <<"f", "l", "a", "s", "h", " ", "w", "r", "i", "t", "e", " ", "e", "r", "r", "o", "r">>
      [] code = ErrFlashWriteErr   -> <<"f", "l", "a", "s", "h", " ", "r", "e", "a", "d", " ", "e", "r", "r", "o", "r">>
      [] code = ErrFlashReadErr    -> <<"f", "l", "a", "s", "h", " ", "r", "e", "a", "d", " ", "l", "e", "n", "g", "t", "h", " ", "e", "r", "r", "o", "r">>
      [] code = ErrFlashReadLenErr -> <<"d", "e", "f", "l", "a", "t", "e", " ", "e", "r", "r", "o", "r">>
      [] OTHER                     -> <<"u", "n", "k", "n", "o", "w", "n", " ", "e", "r", "r", "o", "r">>

ErrorMessage(code) ==
    CASE code = ErrInvalidMessage  -> <<"i", "n", "v", "a", "l", "i", "d", " ", "m", "e", "s", "s", "a", "g", "e">>
      [] code = ErrFailedToAct     -> <<"f", "a", "i", "l", "e", "d", " ", "t", "o", " ", "a", "c", "t">>
      [] code = ErrInvalidCRC      -> <<"i", "n", "v", "a", "l", "i", "d", " ", "C", "R", "C">>
      [] code = ErrFlashWriteErr   -> <<"f", "l", "a", "s", "h", " ", "w", "r", "i", "t", "e", " ", "e", "r", "r", "o", "r">>
      [] code = ErrFlashReadErr    -> <<"f", "l", "a", "s", "h", " ", "r", "e", "a", "d", " ", "e", "r", "r", "o", "r">>
      [] code = ErrFlashReadLenErr -> <<"f", "l", "a", "s", "h", " ", "r", "e", "a", "d", " ", "l", "e", "n", "g", "t", "h", " ", "e", "r", "r", "o", "r">>
      [] code = ErrDeflateError    -> <<"d", "e", "f", "l", "a", "t", "e", " ", "e", "r", "r", "o", "r">>
      [] OTHER                     -> <<"u", "n", "k", "n", "o", "w", "n", " ", "e", "r", "r", "o", "r">>

\* fmt's %02X of a byte: two upper-case hexadecimal digits
HexDigits == <<"0", "1", "2", "3", "4", "5", "6", "7", "8", "9", "A", "B", "C", "D", "E", "F">>

Hex02X(b) == <<HexDigits[(b \div 16) + 1], HexDigits[(b % 16) + 1]>>

\* Response.ErrorString: "status=0x%02X error=0x%02X (%s)", empty on success
ErrorString(r) ==
    IF IsSuccess(r) THEN <<>>
    ELSE <<"s", "t", "a", "t", "u", "s", "=", "0", "x">> \o Hex02X(r.Status)
         \o <<" ", "e", "r", "r", "o", "r", "=", "0", "x">> \o Hex02X(r.Error)
         \o <<" ", "(">> \o ErrorMessage(r.Error) \o <<")">>

\* the error sendCommandWithTimeout builds for a response that is not a
\* success: "command 0x%02X failed: %s"; nil (empty) for a success
CommandFailed(cmd, r) ==
    IF IsSuccess(r) THEN <<>>
    ELSE <<"c", "o", "m", "m", "a", "n", "d", " ", "0", "x">> \o Hex02X(cmd)
         \o <<" ", "f", "a", "i", "l", "e", "d", ":", " ">> \o ErrorString(r)

(***************************************************************************)
(* The error text on its own: sendCommandWithTimeout's check of a response *)
(* with the given status and error bytes to the given request opcode.      *)
(***************************************************************************)
ErrInputs ==
    {<<cmd, st, er>> : cmd \in {CmdSpiAttach, CmdSpiSetParams, CmdFlashDeflBegin, CmdFlashDeflData},
                       st \in {0, 1, 171}, er \in 0..255}

InitErr ==
    /\ fnPc = "response"
    /\ fnIn \in ErrInputs
    /\ fnOut = <<>>
    /\ InitFlasher

ErrCheckResponse ==
    /\ fnPc = "response"
    /\ fnOut' = CommandFailed(fnIn[1], [Command |-> fnIn[1], Value |-> 0, Data |-> <<>>,
                                        Status |-> fnIn[2], Error |-> fnIn[3]])
    /\ fnPc' = "checked"
    /\ UNCHANGED <<fnIn, flVars>>

NextErr == ErrCheckResponse

SpecErr == InitErr /\ [][NextErr]_vars

(***************************************************************************)
(* Frame extraction on its own: the loop of readResponse around            *)
(* slip.ReadFrame. fnIn is every byte received so far, fnOut.buffer the    *)
(* buffer of readResponse and fnOut.frames the frames ReadFrame returned.  *)
(***************************************************************************)
MaxBuf == 8

FrameBytes == {End, Esc, 1}

RECURSIVE FrameInputsOf(_)
FrameInputsOf(n) ==
    IF n = 0 THEN {<<>>}
    ELSE LET shorter == FrameInputsOf(n - 1)
         IN  shorter \cup {Append(s, b) : s \in {t \in shorter : Len(t) = n - 1}, b \in FrameBytes}

FrameInputs == FrameInputsOf(MaxBuf)

InitFrame ==
    /\ fnPc = "buffer"
    /\ fnIn \in FrameInputs
    /\ fnOut = [frames |-> <<>>, buffer |-> fnIn]
    /\ InitFlasher

\* frame, remaining := slip.ReadFrame(buffer); if frame != nil { buffer = remaining }
FrameExtract ==
    /\ fnPc \in {"buffer", "frame", "more"}
    /\ LET rf == ReadFrame(fnOut.buffer)
       IN  IF rf.found
           THEN /\ fnOut' = [frames |-> Append(fnOut.frames, rf.frame), buffer |-> rf.remaining]
                /\ fnPc' = "frame"
           ELSE /\ fnOut' = [fnOut EXCEPT !.buffer = rf.remaining]
                /\ fnPc' = "none"
    /\ UNCHANGED <<fnIn, flVars>>

\* no frame yet: the next read appends a byte to the buffer
FrameAppend ==
    /\ fnPc = "none"
    /\ Len(fnIn) < MaxBuf
    /\ \E b \in FrameBytes :
          /\ fnIn' = Append(fnIn, b)
          /\ fnOut' = [fnOut EXCEPT !.buffer = Append(fnOut.buffer, b)]
    /\ fnPc' = "more"
    /\ UNCHANGED flVars

NextFrame == FrameExtract \/ FrameAppend

SpecFrame == InitFrame /\ [][NextFrame]_vars

(***************************************************************************)
(* slip.Decode on its own, on any frame and not only on Encode's output.   *)
(***************************************************************************)
MaxFrame == 5

DecodeInputs == UNION {[1..n -> SlipBytes] : n \in 0..MaxFrame}

InitDecode ==
    /\ fnPc = "frame"
    /\ fnIn \in DecodeInputs
    /\ fnOut = <<>>
    /\ InitFlasher

DecodeFrame ==
    /\ fnPc = "frame"
    /\ fnOut' = Decode(fnIn)
    /\ fnPc' = "payload"
    /\ UNCHANGED <<fnIn, flVars>>

NextDecode == DecodeFrame

SpecDecode == InitDecode /\ [][NextDecode]_vars

(***************************************************************************)
(* internal/protocol on its own: each function applied to inputs drawn     *)
(* from bounded sets. fnIn.op names the function under test.               *)
(***************************************************************************)
MaxPayload == 3

PayloadBytes == {0, 1, 2, 3, 85, 128, 239, 255}

\* payloads of the lengths the 16-bit size field distinguishes
LongPayloads == {[i \in 1..n |-> (i * 7) % 256] : n \in {255, 256, 300, 1040}}

RequestInputs ==
    {[op |-> "request", cmd |-> c, data |-> d] :
        c \in {CmdSync, CmdFlashDeflData},
        d \in UNION {[1..n -> PayloadBytes] : n \in 0..MaxPayload} \cup LongPayloads}

MaxBody == 4

\* responses: a header whose fields vary, a body of MaxBody bytes, cut to
\* every length
ResponseInputs ==
    {[op |-> "response",
      data |-> SubSeq(<<dir, cmd>> \o LE16(size) \o value \o body, 1, n)] :
        dir \in {0, 1, 2}, cmd \in {CmdSync, CmdFlashDeflData},
        size \in (0..(MaxBody + 2)) \cup {258, 65535},
        value \in {<<0, 0, 0, 0>>, <<120, 86, 52, 18>>},
        body \in [1..MaxBody -> {0, 1}],
        n \in 0..(8 + MaxBody)}

MaxSize == 8193

\* lengths: every one up to MaxSize, and those around 2^32 and 2^42, where
\* the sizes in bytes and the counts of blocks leave the range of uint32
LengthInputs ==
    {[op |-> "length", len |-> l] :
        l \in {Wide(n) : n \in 0..MaxSize}
              \cup {<<Limb - x, Limb - 1, 0, 0>> : x \in 1..4098}
              \cup {<<x, 0, 1, 0>> : x \in 0..4098}
              \cup {<<Limb - x, Limb - 1, 1023, 0>> : x \in 1..1026}
              \cup {<<x, 0, 1024, 0>> : x \in 0..1026}}

\* blocks of a compressed stream with their sequence numbers: short ones, a
\* full one and the lengths next to it
BlockInputs ==
    {[op |-> "block", block |-> b, seq |-> n] :
        b \in UNION {[1..k -> PayloadBytes] : k \in 0..MaxPayload}
              \cup {[i \in 1..k |-> (i * 7) % 256] : k \in {452, 1023, 1024}},
        n \in {0, 1, 2, 258, 70000}}

\* the bytes after the chip ID in a GET_SECURITY_INFO answer
MaxInfo == 13

\* answers to GET_SECURITY_INFO: four leading bytes that vary, then filler,
\* cut to every length
InfoInputs ==
    {[op |-> "info", data |-> SubSeq(<<b0, b1, b2, b3>> \o [i \in 1..MaxInfo |-> 16 + i], 1, n)] :
        b0 \in {0, 5, 120}, b1 \in {0, 86}, b2 \in {0, 52}, b3 \in {0, 18, 255},
        n \in 0..(4 + MaxInfo)}

ProtoInputs == RequestInputs \cup ResponseInputs \cup LengthInputs \cup BlockInputs \cup InfoInputs

InitProto ==
    /\ fnPc = "call"
    /\ fnIn \in ProtoInputs
    /\ fnOut = <<>>
    /\ InitFlasher

\* protocol.NewRequest(cmd, data).Encode()
ProtoRequest ==
    /\ fnPc = "call"
    /\ fnIn.op = "request"
    /\ LET req == NewRequest(fnIn.cmd, fnIn.data)
       IN  fnOut' = [req |-> req, packet |-> RequestEncode(req)]
    /\ fnPc' = "request"
    /\ UNCHANGED <<fnIn, flVars>>

\* resp, err := protocol.DecodeResponse(data); resp.IsSuccess()
ProtoResponse ==
    /\ fnPc = "call"
    /\ fnIn.op = "response"
    /\ LET res == DecodeResponse(fnIn.data)
       IN  fnOut' = [err |-> res.err, resp |-> res.resp,
                     success |-> IF res.err = "" THEN IsSuccess(res.resp) ELSE FALSE]
    /\ fnPc' = "response"
    /\ UNCHANGED <<fnIn, flVars>>

\* the erase size and the block count of a length, by each of the package's
\* two functions
ProtoSizes ==
    /\ fnPc = "call"
    /\ fnIn.op = "length"
    /\ fnOut' = [erase       |-> CalculateEraseSizeWide(fnIn.len),
                 eraseC3     |-> CalculateEraseSizeC3Wide(fnIn.len),
                 deflBlocks  |-> CalculateDeflBlocksWide(fnIn.len, FlashBlockSize),
                 flashBlocks |-> CalculateFlashBlocksWide(fnIn.len)]
    /\ fnPc' = "sizes"
    /\ UNCHANGED <<fnIn, flVars>>

\* protocol.FlashDeflDataData(block, seq)
ProtoDeflData ==
    /\ fnPc = "call"
    /\ fnIn.op = "block"
    /\ fnOut' = FlashDeflDataData(fnIn.block, fnIn.seq)
    /\ fnPc' = "block"
    /\ UNCHANGED <<fnIn, flVars>>

\* the uint32 binary.LittleEndian.Uint32 reads at 0-based offset off, as its
\* low and its high 16 bits
Uint32HalvesAt(data, off) == <<Uint16At(data, off), Uint16At(data, off + 2)>>

NoChipID == <<0, 0>>

\* ParseSecurityInfo of packet.go
ParseSecurityInfo(data) ==
    IF Len(data) < 4
    THEN [err |-> "security info too short", ChipID |-> NoChipID]
    ELSE [err |-> "", ChipID |-> Uint32HalvesAt(data, 0)]

\* ParseSecurityInfo of esp32c3.go
ParseSecurityInfoC3(data) ==
    IF Len(data) < 12
    THEN [err |-> "security info too short", ChipID |-> NoChipID]
    ELSE [err |-> "", ChipID |-> Uint32HalvesAt(data, 0)]

\* info, err := protocol.ParseSecurityInfo(data), by each of the package's
\* two functions
ProtoInfo ==
    /\ fnPc = "call"
    /\ fnIn.op = "info"
    /\ fnOut' = [info |-> ParseSecurityInfo(fnIn.data), infoC3 |-> ParseSecurityInfoC3(fnIn.data)]
    /\ fnPc' = "info"
    /\ UNCHANGED <<fnIn, flVars>>

NextProto == ProtoRequest \/ ProtoResponse \/ ProtoSizes \/ ProtoDeflData \/ ProtoInfo

SpecProto == InitProto /\ [][NextProto]_vars

(***************************************************************************)
(* The progress callback of the uncompressed path: FlashImage and          *)
(* FlashMultiple. fnIn is the call (one region or several, with or without *)
(* a callback set by the caller, verify = false); whether the device       *)
(* accepts a command is chosen at each step. In fnOut, progress is the     *)
(* value of f.progress, calls the invocations the caller's callback has    *)
(* received, acked the blocks acknowledged so far, and depth the number of *)
(* nested invocations of FlashMultiple's closure in progress.              *)
(***************************************************************************)
MaxRegions == 2

\* the deepest nesting of calls the goroutine's stack holds
MaxDepth == 3

ProgressSizes == {0, 1, 1024, 1025, 2049}

ProgressInputs ==
    {[multi |-> m, observer |-> o, sizes |-> s] :
        m \in BOOLEAN, o \in BOOLEAN,
        s \in UNION {[1..n -> ProgressSizes] : n \in 0..MaxRegions}}

\* esp32c3.go: CalculateFlashBlocks, for sizes below 2^31
CalculateFlashBlocks(size) ==
    LET blocks == size \div FlashBlockSize
    IN  U32(IF size % FlashBlockSize # 0 THEN blocks + 1 ELSE blocks)

RECURSIVE SumSizes(_)
\* totalSize of FlashMultiple
SumSizes(sizes) ==
    IF sizes = <<>> THEN 0 ELSE sizes[1] + SumSizes(Tail(sizes))

\* New, and SetProgressCallback if the caller sets a callback
InitProgress ==
    /\ fnPc = "start"
    /\ fnIn \in {i \in ProgressInputs : i.multi \/ Len(i.sizes) = 1}
    /\ fnOut = [progress |-> IF fnIn.observer THEN "caller" ELSE "nil",
                r |-> 1, seq |-> 0, currentProgress |-> 0, calls |-> <<>>, acked |-> 0,
                depth |-> 0, args |-> <<0, 0>>, err |-> ""]
    /\ InitFlasher

\* the caller calls FlashImage for its one region
FlashImageSingle ==
    /\ fnPc = "start"
    /\ ~fnIn.multi
    /\ fnPc' = "begin"
    /\ UNCHANGED <<fnIn, fnOut, flVars>>

\* the caller calls FlashMultiple: totalSize is summed, currentProgress := 0
FlashMultiple ==
    /\ fnPc = "start"
    /\ fnIn.multi
    /\ fnPc' = "region"
    /\ UNCHANGED <<fnIn, fnOut, flVars>>

\* the head of FlashMultiple's loop: return nil after the last region, else
\* SetProgressCallback(closure) and FlashImage is called
FlashMultipleRegion ==
    /\ fnPc = "region"
    /\ IF fnOut.r > Len(fnIn.sizes)
       THEN fnPc' = "returned" /\ fnOut' = fnOut
       ELSE fnPc' = "begin" /\ fnOut' = [fnOut EXCEPT !.progress = "closure"]
    /\ UNCHANGED <<fnIn, flVars>>

\* FlashImage: FLASH_BEGIN is sent; an error is returned
FlashImageBegin ==
    /\ fnPc = "begin"
    /\ \/ fnPc' = "blocks" /\ fnOut' = [fnOut EXCEPT !.seq = 0]
       \/ fnPc' = "failed" /\ fnOut' = [fnOut EXCEPT !.err = "flash begin failed"]
    /\ UNCHANGED <<fnIn, flVars>>

\* reportProgress(current, total), called by FlashImage after a block: out
\* is fnOut after the block was counted
reportProgress(current, total, out) ==
    CASE out.progress = "nil" ->
            fnPc' = "blocks" /\ fnOut' = out
      [] out.progress = "caller" ->
            fnPc' = "blocks" /\ fnOut' = [out EXCEPT !.calls = Append(@, <<current, total>>)]
      [] out.progress = "closure" ->
            fnPc' = "closure" /\ fnOut' = [out EXCEPT !.depth = 1, !.args = <<current, total>>]

\* one pass of FlashImage's loop: the block is sent; an error is returned,
\* else reportProgress(seq+1, totalBlocks)
FlashImageBlock ==
    /\ fnPc = "blocks"
    /\ LET totalBlocks == CalculateFlashBlocks(fnIn.sizes[fnOut.r])
       IN  /\ fnOut.seq < totalBlocks
           /\ \/ reportProgress(fnOut.seq + 1, totalBlocks,
                                [fnOut EXCEPT !.seq = @ + 1, !.acked = @ + 1])
              \/ fnPc' = "failed" /\ fnOut' = [fnOut EXCEPT !.err = "flash data block failed"]
    /\ UNCHANGED <<fnIn, flVars>>

\* the closure FlashMultiple installs, invoked with (current, total): it
\* calls f.reportProgress(currentProgress+current, totalSize/FlashBlockSize),
\* and f.progress is the closure itself
ProgressClosure ==
    /\ fnPc = "closure"
    /\ fnOut.depth < MaxDepth
    /\ fnOut' = [fnOut EXCEPT !.depth = @ + 1,
                              !.args = <<fnOut.currentProgress + fnOut.args[1],
                                         SumSizes(fnIn.sizes) \div FlashBlockSize>>]
    /\ UNCHANGED <<fnPc, fnIn, flVars>>

\* the stack is exhausted: the runtime ends the process
StackOverflow ==
    /\ fnPc = "closure"
    /\ fnOut.depth >= MaxDepth
    /\ fnPc' = "overflow"
    /\ UNCHANGED <<fnIn, fnOut, flVars>>

\* FlashImage after its loop: FLASH_END is sent, an error is returned; on
\* success FlashImage returns nil and FlashMultiple adds the region's blocks
\* to currentProgress
FlashImageEnd ==
    /\ fnPc = "blocks"
    /\ LET totalBlocks == CalculateFlashBlocks(fnIn.sizes[fnOut.r])
       IN  /\ fnOut.seq >= totalBlocks
           /\ \/ fnPc' = "failed" /\ fnOut' = [fnOut EXCEPT !.err = "flash end failed"]
              \/ /\ fnPc' = IF fnIn.multi THEN "region" ELSE "returned"
                 /\ fnOut' = [fnOut EXCEPT !.r = @ + 1,
                                           !.currentProgress = @ + totalBlocks]
    /\ UNCHANGED <<fnIn, flVars>>

NextProgress ==
    \/ FlashImageSingle
    \/ FlashMultiple
    \/ FlashMultipleRegion
    \/ FlashImageBegin
    \/ FlashImageBlock
    \/ ProgressClosure
    \/ StackOverflow
    \/ FlashImageEnd

SpecProgress == InitProgress /\ [][NextProgress]_vars

(***************************************************************************)
(* Frame extraction over a stream that arrives in chunks. fnIn is the      *)
(* whole stream; in fnOut, chunks is the lengths of the reads made so far, *)
(* buffer the buffer the chunks are appended to and frames the frames      *)
(* slip.ReadFrame has returned.                                            *)
(***************************************************************************)
MaxStream == 6

StreamInputs == FrameInputsOf(MaxStream)

RECURSIVE ExtractAll(_, _)
\* frame, remaining := slip.ReadFrame(buffer), again with buffer = remaining
\* for as long as a frame is returned
ExtractAll(frames, buf) ==
    LET rf == ReadFrame(buf)
    IN  IF rf.found
        THEN ExtractAll(Append(frames, rf.frame), rf.remaining)
        ELSE [frames |-> frames, buffer |-> buf]

RECURSIVE SumLengths(_)
\* the bytes read so far
SumLengths(chunks) ==
    IF chunks = <<>> THEN 0 ELSE chunks[1] + SumLengths(Tail(chunks))

InitChunk ==
    /\ fnPc = "stream"
    /\ fnIn \in StreamInputs
    /\ fnOut = [chunks |-> <<>>, buffer |-> <<>>, frames |-> <<>>]
    /\ InitFlasher

\* a read returns the next n bytes of the stream: they are appended to the
\* buffer and the frames the buffer now holds are extracted
ChunkRead ==
    /\ fnPc \in {"stream", "chunk"}
    /\ LET read == SumLengths(fnOut.chunks)
       IN  \E n \in 1..(Len(fnIn) - read) :
              LET ex == ExtractAll(fnOut.frames,
                                   fnOut.buffer \o SubSeq(fnIn, read + 1, read + n))
              IN  fnOut' = [chunks |-> Append(fnOut.chunks, n),
                            buffer |-> ex.buffer, frames |-> ex.frames]
    /\ fnPc' = "chunk"
    /\ UNCHANGED <<fnIn, flVars>>

NextChunk == ChunkRead

SpecChunk == InitChunk /\ [][NextChunk]_vars

(***************************************************************************)
(* Package detect: DetectDevice over the ports serial.ListPorts returns.   *)
(* A port is what it does when tried: whether Open and ResetToBootloader   *)
(* succeed, whether one of the SYNC attempts gets its success response,    *)
(* and how the write and the read of getChipID end, with the bytes read.   *)
(* fnIn is the outcome of ListPorts; in fnOut, i is the index of the next  *)
(* port to try.                                                            *)
(***************************************************************************)
MaxPorts == 3

CmdGetSecurityInfo == 20
ChipIDESP32C3 == 5

\* the bytes ReadAll returns to getChipID
InfoAnswers ==
    { <<>>,
      Encode(RespBytes(DirResponse, CmdGetSecurityInfo, 6, LE32(ChipIDESP32C3) \o <<0, 0>>)),
      Encode(RespBytes(DirResponse, CmdGetSecurityInfo, 6, LE32(9) \o <<0, 0>>)),
      Encode(RespBytes(DirResponse, CmdGetSecurityInfo, 2, <<1, 5>>)),
      GoodFrame(CmdSync) }

PortKinds ==
    { [open |-> FALSE, reset |-> FALSE, sync |-> FALSE, io |-> "ok", answer |-> <<>>],
      [open |-> TRUE,  reset |-> FALSE, sync |-> FALSE, io |-> "ok", answer |-> <<>>],
      [open |-> TRUE,  reset |-> TRUE,  sync |-> FALSE, io |-> "ok", answer |-> <<>>],
      [open |-> TRUE,  reset |-> TRUE,  sync |-> TRUE,  io |-> "write error", answer |-> <<>>],
      [open |-> TRUE,  reset |-> TRUE,  sync |-> TRUE,  io |-> "read error", answer |-> <<>>] }
    \cup
    { [open |-> TRUE, reset |-> TRUE, sync |-> TRUE, io |-> "ok", answer |-> a] : a \in InfoAnswers }

DetectInputs ==
    {[listErr |-> e, ports |-> p] :
        e \in BOOLEAN, p \in UNION {[1..n -> PortKinds] : n \in 0..MaxPorts}}

\* protocol.ChipName of commands.go, on the two halves of the uint32
ChipName(id) == IF id = <<ChipIDESP32C3, 0>> THEN "ESP32-C3" ELSE "ESP32"

\* getChipID on a port that has synced
getChipID(port) ==
    IF port.io # "ok" THEN [err |-> port.io, ChipID |-> NoChipID]
    ELSE LET rf == ReadFrame(port.answer)
         IN  IF ~rf.found THEN [err |-> "no response frame", ChipID |-> NoChipID]
             ELSE LET res == DecodeResponse(Decode(rf.frame))
                  IN  IF res.err # "" THEN [err |-> res.err, ChipID |-> NoChipID]
                      ELSE IF ~IsSuccess(res.resp)
                      THEN [err |-> "get security info failed", ChipID |-> NoChipID]
                      ELSE ParseSecurityInfo(res.resp.Data)

NoResult == [Port |-> 0, ChipID |-> NoChipID, ChipName |-> ""]

\* tryPort on the port with the given name (its index in the list)
tryPort(portName, port) ==
    IF ~port.open THEN [err |-> "open failed", result |-> NoResult]
    ELSE IF ~port.reset THEN [err |-> "failed to reset", result |-> NoResult]
    ELSE IF ~port.sync THEN [err |-> "failed to sync", result |-> NoResult]
    ELSE LET id == getChipID(port)
         IN  IF id.err # ""
             THEN [err |-> "",
                   result |-> [Port |-> portName, ChipID |-> NoChipID,
                               ChipName |-> "ESP32 (unknown variant)"]]
             ELSE [err |-> "",
                   result |-> [Port |-> portName, ChipID |-> id.ChipID,
                               ChipName |-> ChipName(id.ChipID)]]

InitDetect ==
    /\ fnPc = "detect"
    /\ fnIn \in DetectInputs
    /\ fnOut = [i |-> 0, lastErr |-> "", result |-> NoResult, err |-> ""]
    /\ InitFlasher

\* DetectDevice up to its loop: ListPorts, and the empty list
ListPorts ==
    /\ fnPc = "detect"
    /\ IF fnIn.listErr
       THEN fnPc' = "returned" /\ fnOut' = [fnOut EXCEPT !.err = "failed to list ports"]
       ELSE IF Len(fnIn.ports) = 0
       THEN fnPc' = "returned" /\ fnOut' = [fnOut EXCEPT !.err = "no serial ports found"]
       ELSE fnPc' = "ports" /\ fnOut' = [fnOut EXCEPT !.i = 1]
    /\ UNCHANGED <<fnIn, flVars>>

\* one pass of DetectDevice's loop
DetectTryPort ==
    /\ fnPc = "ports"
    /\ fnOut.i <= Len(fnIn.ports)
    /\ LET t == tryPort(fnOut.i, fnIn.ports[fnOut.i])
       IN  IF t.err # ""
           THEN fnPc' = "ports" /\ fnOut' = [fnOut EXCEPT !.lastErr = t.err, !.i = @ + 1]
           ELSE fnPc' = "returned" /\ fnOut' = [fnOut EXCEPT !.result = t.result]
    /\ UNCHANGED <<fnIn, flVars>>

\* DetectDevice after its loop
DetectNone ==
    /\ fnPc = "ports"
    /\ fnOut.i > Len(fnIn.ports)
    /\ fnPc' = "returned"
    /\ fnOut' = [fnOut EXCEPT !.err = "no ESP32-C3 device found"]
    /\ UNCHANGED <<fnIn, flVars>>

NextDetect == ListPorts \/ DetectTryPort \/ DetectNone

SpecDetect == InitDetect /\ [][NextDetect]_vars

(***************************************************************************)
(* Properties.                                                             *)
(***************************************************************************)
\* the frames a trace of the port shows as written, in order
Writes(w) == SelectSeq(w, LAMBDA e : e.op = "write")

\* the first decoded bytes of the request a written frame carries: the
\* 8-byte header and the leading fields of the payload
Header(f) == Decode(SubSeq(f, 1, Min(Len(f), 40)))

\* the opcode of a written frame
WriteCmd(e) == Header(e.arg)[2]

\* the written frames of one opcode
WritesOf(w, cmd) == SelectSeq(w, LAMBDA e : e.op = "write" /\ WriteCmd(e) = cmd)

\* the opcodes of the written frames, in order
Cmds(w) == [i \in 1..Len(Writes(w)) |-> WriteCmd(Writes(w)[i])]

\* Connect is running or has returned, and no region has been flashed since
InConnect == region = NoRegion /\ pc # "idle"

\* C1: for every byte sequence b, the empty one and those holding 0xC0 and
\* 0xDB included, slip.Decode(slip.Encode(b)) is exactly b.
C1_RoundTrip == fnPc = "decoded" => fnOut = fnIn

\* C1 happens: an input holding both 0xC0 and 0xDB has been encoded and decoded.
C1_Witness ==
    /\ fnPc = "decoded"
    /\ \E i, j \in 1..Len(fnIn) : fnIn[i] = 192 /\ fnIn[j] = 219
    /\ fnOut = fnIn

\* what C2 calls a response with opcode 0x08, status 0 and error 0
C2_GoodSync(r) ==
    r.err = "" /\ r.resp.Command = 8 /\ r.resp.Status = 0 /\ r.resp.Error = 0

\* the positions of Connect that lie after a successful sync
C2_AfterSync ==
    {"sync_drain", "drain_read", "drain_resp", "attach", "attach_read", "attach_resp",
     "params", "params_read", "params_resp", "connected"}

C2_State ==
    InConnect =>
        LET syncs == WritesOf(wire, 8)
        IN  /\ Len(syncs) <= 10
            /\ \A i \in 1..Len(wire) :
                  (wire[i].op = "write" /\ WriteCmd(wire[i]) = 8)
                      => i > 1 /\ wire[i - 1].op = "flush"
            /\ pc \in C2_AfterSync => failed < 10 /\ Len(syncs) = failed + 1
            /\ (pc = "aborted" /\ ret.err = "failed to sync with bootloader")
                  <=> (failed = 10 /\ pc # "sync")
            /\ failed = 10 => Len(syncs) = 10

C2_Step ==
    /\ pc = "sync_resp" =>
          IF C2_GoodSync(lastResp)
          THEN pc' = "sync_drain" /\ failed' = failed
          ELSE pc' = "sync" /\ failed' = failed + 1
    /\ (pc = "sync" /\ pc' = "sync") => failed' = failed + 1
    /\ pc = "sync_read" => pc' \in {"sync_read", "sync_resp"}

\* C2: sync makes at most 10 attempts, each flushing the input and then
\* writing one SYNC frame; it succeeds at the first attempt k whose response
\* is a SYNC response with status 0 and error 0, having written exactly k
\* SYNC frames; it returns the sync failure exactly when all 10 attempts
\* failed (write error, timeout, decode error, wrong opcode, non-zero status).
C2_Sync == [](C2_State) /\ [][C2_Step]_vars

\* C2 happens: two attempts failed and the third got its SYNC response.
C2_Witness ==
    /\ InConnect
    /\ pc = "sync_drain"
    /\ failed = 2
    /\ Len(WritesOf(wire, 8)) = 3

\* the place of an opcode in Connect's order
C3_Rank(cmd) == CASE cmd = 8 -> 1 [] cmd = 13 -> 2 [] cmd = 11 -> 3 [] OTHER -> 0

C3_Ok(r) == r.err = "" /\ r.resp.Status = 0 /\ r.resp.Error = 0

C3_State ==
    InConnect =>
        LET cmds == Cmds(wire)
            n    == Min(Len(wire), Len(ResetSeq))
        IN  /\ SubSeq(wire, 1, n) = SubSeq(ResetSeq, 1, n)
            /\ \A i \in 1..Len(cmds) : C3_Rank(cmds[i]) > 0
            /\ \A i, j \in 1..Len(cmds) :
                  i < j => /\ C3_Rank(cmds[i]) <= C3_Rank(cmds[j])
                           /\ cmds[i] = cmds[j] => cmds[i] = 8
            /\ Len(cmds) > 0 => cmds[1] = 8 /\ Len(wire) > Len(ResetSeq)
            /\ (\E i \in 1..Len(cmds) : cmds[i] = 13)
                  => failed < 10 /\ Len(WritesOf(wire, 8)) = failed + 1
            /\ (\E i \in 1..Len(cmds) : cmds[i] = 11)
                  => \E j \in 1..Len(cmds) : cmds[j] = 13
            /\ \A i \in 1..Len(wire) :
                  (wire[i].op = "write" /\ WriteCmd(wire[i]) = 11)
                      => Uint32At(Header(wire[i].arg), 12) = 16 * 1024 * 1024
            /\ pc = "aborted" =>
                  /\ ret.fn = "Connect" /\ ret.err # ""
                  /\ ret.err = "failed to reset into bootloader" => Len(cmds) = 0
                  /\ ret.err = "failed to sync with bootloader"
                        => \A i \in 1..Len(cmds) : cmds[i] = 8
                  /\ ret.err = "failed to attach SPI flash"
                        => \A i \in 1..Len(cmds) : cmds[i] # 11
            /\ pc = "connected" =>
                  /\ ret.err = ""
                  /\ Len(cmds) >= 3
                  /\ cmds[Len(cmds) - 1] = 13 /\ cmds[Len(cmds)] = 11

C3_Step ==
    /\ pc = "attach_resp" =>
          IF C3_Ok(lastResp)
          THEN pc' = "params" /\ wire' = wire
          ELSE pc' = "aborted" /\ ret'.err = "failed to attach SPI flash"
    /\ pc = "params_resp" =>
          IF C3_Ok(lastResp)
          THEN pc' = "connected" /\ ret'.err = ""
          ELSE pc' = "aborted" /\ ret'.err = "failed to set flash params"
    /\ pc = "aborted" => wire' = wire /\ pc' = "aborted"

\* C3: Connect performs the reset sequence, the sync handshake, SPI_ATTACH
\* and SPI_SET_PARAMS with total size 16 MiB in this order; a step starts
\* only after the one before it succeeded, and after a failed step Connect
\* returns an error and writes no later command.
C3_ConnectOrder == [](C3_State) /\ [][C3_Step]_vars

\* C3 happens: Connect returned nil after one failed sync attempt, having
\* written SYNC, SYNC, SPI_ATTACH, SPI_SET_PARAMS.
C3_Witness ==
    /\ InConnect
    /\ pc = "connected"
    /\ Cmds(wire) = <<8, 8, 13, 11>>

\* C4: the flasher never has two requests outstanding: when it writes a
\* request frame, the wait for the response to the frame before it has
\* ended, by a parsed response frame or by the timeout.
C4_OneOutstanding ==
    /\ [](outstanding => pc \in {Reading(p) : p \in ReadPos})
    /\ [][ /\ Len(Writes(wire')) > Len(Writes(wire)) => ~outstanding
           /\ (outstanding /\ ~outstanding')
                 => \/ lastResp'.err = "timeout waiting for response"
                    \/ lastResp' # NoResp ]_vars

\* C4 happens: during the block loop a frame was written and is awaited
\* after the waits for the earlier frames ended.
C4_Witness ==
    /\ pc = "block_read"
    /\ outstanding
    /\ seq = 1
    /\ Len(Writes(wire)) >= 3

\* FlashImageCompressed is running or has returned
InFlash == region # NoRegion /\ pc \notin {"hard_reset", "done"}

\* the sequence numbers of the FLASH_DEFL_DATA frames written, in order
DataSeqs(w) ==
    LET ws == WritesOf(w, 17)
    IN  [i \in 1..Len(ws) |-> Uint32At(Header(ws[i].arg), 12)]

\* C5: in every run of FlashImageCompressed, failed attempts and retries
\* included, the sequence numbers of the FLASH_DEFL_DATA frames written for
\* a region increase monotonically from zero: the first is 0 and each later
\* one repeats the number before it (a retry) or is that number plus one.
C5_SeqMonotonic ==
    InFlash =>
        LET s == DataSeqs(wire)
        IN  /\ Len(s) > 0 => s[1] = 0
            /\ \A i \in 2..Len(s) : s[i] = s[i - 1] \/ s[i] = s[i - 1] + 1

\* C5 happens: block 0 was written twice (one retry), then block 1.
C5_Witness == InFlash /\ DataSeqs(wire) = <<0, 0, 1>>

\* the block bytes a written FLASH_DEFL_DATA frame carries after the 8-byte
\* header and the 16-byte payload header, and the length it declares
C6_Body(e) == LET d == Decode(e.arg) IN SubSeq(d, 25, Len(d))

C6_DeclaredLen(e) == Uint32At(Header(e.arg), 8)

RECURSIVE C6_Concat(_, _)
C6_Concat(ws, n) == IF n = 0 THEN <<>> ELSE C6_Concat(ws, n - 1) \o C6_Body(ws[n])

\* C6: a fault-free run over a compressed stream of length L sends exactly
\* ceil(L/1024) FLASH_DEFL_DATA packets; packet k carries the bytes
\* [1024k, min(1024(k+1), L)), so every block but the last has 1024 bytes,
\* the last is not padded, and the blocks in order make up the stream.
C6_Blocks ==
    (InFlash /\ pc = "flashed" /\ faults = 0) =>
        LET L  == Len(region.Comp)
            n  == (L + 1023) \div 1024
            ws == WritesOf(wire, 17)
            s  == DataSeqs(wire)
        IN  /\ Len(ws) = n
            /\ \A k \in 0..(n - 1) :
                  /\ s[k + 1] = k
                  /\ C6_Body(ws[k + 1]) = SubSeq(region.Comp, 1024 * k + 1, Min(1024 * (k + 1), L))
                  /\ C6_DeclaredLen(ws[k + 1]) = Len(C6_Body(ws[k + 1]))
                  /\ k < n - 1 => Len(C6_Body(ws[k + 1])) = 1024
            /\ C6_Concat(ws, n) = region.Comp

\* C6 happens: a stream of 2049 bytes was flashed without a failed attempt,
\* in packets of 1024, 1024 and 1 bytes.
C6_Witness ==
    /\ InFlash /\ pc = "flashed" /\ faults = 0
    /\ Len(region.Comp) = 2049
    /\ Len(WritesOf(wire, 17)) = 3

\* C7: the FLASH_DEFL_BEGIN request for a region (address, data) carries four
\* little-endian 32-bit fields in this order: erase_size = the uncompressed
\* length rounded up to a multiple of 4096, num_blocks = ceil(compressed
\* length / 1024), block_size = 1024, offset = address.
C7_Begin ==
    (InFlash /\ Len(Writes(wire)) > 0) =>
        LET d == Decode(Writes(wire)[1].arg)
        IN  /\ Len(WritesOf(wire, 16)) = 1
            /\ d[1] = 0 /\ d[2] = 16
            /\ Uint16At(d, 2) = 16
            /\ Len(d) = 8 + 16
            /\ Uint32At(d, 8)  = ((region.DataLen + 4095) \div 4096) * 4096
            /\ Uint32At(d, 12) = (Len(region.Comp) + 1023) \div 1024
            /\ Uint32At(d, 16) = 1024
            /\ Uint32At(d, 20) = region.Address

\* C7 happens: FLASH_DEFL_BEGIN was written for 4097 bytes of data, which
\* round up to 8192, at a non-zero address.
C7_Witness ==
    /\ InFlash /\ pc = "begin_read"
    /\ region.DataLen = 4097
    /\ region.Address # 0
    /\ Len(WritesOf(wire, 16)) = 1

\* how often the number k occurs in the sequence numbers s
C8_Count(s, k) == Cardinality({i \in 1..Len(s) : s[i] = k})

C8_State ==
    InFlash =>
        LET ws == WritesOf(wire, 17)
            s  == DataSeqs(wire)
        IN  /\ \A i \in 1..Len(s) : C8_Count(s, s[i]) <= 3
            /\ \A i, j \in 1..Len(s) : s[i] = s[j] => ws[i] = ws[j]
            /\ (pc = "aborted" /\ ret.err = "flash defl data block failed") =>
                  /\ Len(s) > 0
                  /\ ret.block = s[Len(s)]
                  /\ C8_Count(s, ret.block) = 3
                  /\ Len(WritesOf(wire, 18)) = 0

C8_Step ==
    /\ (InFlash /\ pc = "block" /\ C8_Count(DataSeqs(wire), seq) = 3) =>
          /\ pc' = "aborted"
          /\ ret'.err = "flash defl data block failed"
          /\ ret'.block = seq
          /\ wire' = wire
    /\ (InFlash /\ pc = "aborted") => wire' = wire

\* C8: each FLASH_DEFL_DATA block is written at most 3 times; a retry sends
\* the identical packet; after 3 failed attempts FlashImageCompressed
\* returns an error that names the block and writes no further frame.
C8_BlockRetries == [](C8_State) /\ [][C8_Step]_vars

\* C8 happens: block 1 failed three times after block 0 was accepted.
C8_Witness ==
    /\ InFlash /\ pc = "aborted"
    /\ ret.err = "flash defl data block failed"
    /\ ret.block = 1
    /\ DataSeqs(wire) = <<0, 1, 1, 1>>

\* C9 as stated: a FLASH_DEFL_DATA response that arrives with non-zero
\* status or error is fatal for the region at once: FlashImageCompressed
\* returns and the block is not sent again.
C9_StatusIsFatal ==
    [][ (pc = "block_resp" /\ lastResp.err = ""
            /\ (lastResp.resp.Status # 0 \/ lastResp.resp.Error # 0))
        => (pc' = "aborted" /\ wire' = wire) ]_vars

\* C10: after all blocks were accepted FlashImageCompressed writes exactly
\* one FLASH_DEFL_END request, whose value is 1 (stay in bootloader), and
\* returns success even when no response arrives before the timeout.
C10_DeflEnd ==
    /\ [](InFlash =>
            LET ends == WritesOf(wire, 18)
            IN  /\ Len(ends) = IF pc \in {"end_read", "end_resp", "flashed"} THEN 1 ELSE 0
                /\ \A i \in 1..Len(ends) :
                      LET d == Decode(ends[i].arg)
                      IN  /\ Len(d) = 8 + 4
                          /\ Uint32At(d, 8) = 1
                /\ Len(ends) = 1 =>
                      /\ wire[Len(wire)] = ends[1]
                      /\ seq = (Len(region.Comp) + 1023) \div 1024
                /\ pc = "flashed" => ret.err = "")
    /\ [][ /\ pc = "end_resp" => (pc' = "flashed" /\ ret'.err = "" /\ wire' = wire)
           /\ pc = "end_read" => pc' \in {"end_read", "end_resp"} ]_vars

\* C10 happens: FlashImageCompressed returned nil although the wait for the
\* FLASH_DEFL_END response ended by the timeout.
C10_Witness ==
    /\ InFlash /\ pc = "flashed"
    /\ ret.err = ""
    /\ lastResp.err = "timeout waiting for response"
    /\ Len(WritesOf(wire, 18)) = 1

\* C11 as stated: a FLASH_DEFL_END response that arrives with non-zero
\* status or error, or that fails to parse, makes FlashImageCompressed
\* return an error; only the timeout is tolerated.
C11_DeflEndFailureIsFatal ==
    [][ (pc = "end_resp"
            /\ \/ lastResp.err \notin {"", "timeout waiting for response"}
               \/ lastResp.err = ""
                     /\ (lastResp.resp.Status # 0 \/ lastResp.resp.Error # 0))
        => (pc' = "aborted" /\ ret'.err # "") ]_vars

\* Reboot is running or has returned
InReboot == pc \in {"hard_reset", "done"}

\* the values SetRTS was called with, in order
RtsCalls(w) ==
    LET es == SelectSeq(w, LAMBDA e : e.op = "rts")
    IN  [i \in 1..Len(es) |-> es[i].arg]

C12_State ==
    InReboot =>
        LET ws == Writes(wire)
        IN  /\ Len(ws) = 1
            /\ wire[1] = ws[1]
            /\ WriteCmd(ws[1]) = 4
            /\ Len(Decode(ws[1].arg)) = 8 + 4
            /\ Uint32At(Decode(ws[1].arg), 8) = 0
            /\ ~outstanding
            /\ \A i \in 1..Len(wire) : wire[i].op # "dtr"
            /\ RtsCalls(wire) \in {<<>>, <<TRUE>>, <<TRUE, FALSE>>}

\* C12 as stated: every execution of Reboot writes one FLASH_END frame with
\* value 0, reads no response, and then goes on to the hard reset (RTS
\* high, then RTS low, DTR never driven) whatever the outcome of the write.
C12_RebootThenHardReset ==
    /\ [](C12_State)
    /\ [][ (pc = "flashed" /\ InReboot') => pc' = "hard_reset" ]_vars

\* the region addresses C13 names, in its order
C13_Order == IF firmwareOnlyFlag THEN <<65536>> ELSE <<0, 32768, 65536>>

C13_State ==
    /\ regionIndex \in 0..Len(C13_Order)
    /\ InConnect => regionIndex = 0
    /\ InFlash =>
          /\ regionIndex >= 1
          /\ region.Address = C13_Order[regionIndex]
          /\ Len(Writes(wire)) > 0 =>
                /\ WriteCmd(Writes(wire)[1]) = 16
                /\ Uint32At(Decode(Writes(wire)[1].arg), 20) = C13_Order[regionIndex]
          /\ Len(WritesOf(wire, 4)) = 0
    /\ InReboot => regionIndex = Len(C13_Order)
    /\ pc = "aborted" => ret.err # "" /\ Len(WritesOf(wire, 4)) = 0

C13_Step ==
    /\ regionIndex' \in {regionIndex, regionIndex + 1}
    /\ regionIndex' = regionIndex + 1 =>
          /\ pc = IF regionIndex = 0 THEN "connected" ELSE "flashed"
          /\ ret.err = ""
          /\ pc' = "begin"
    /\ (~InReboot /\ InReboot') =>
          /\ pc = "flashed" /\ ret.err = ""
          /\ regionIndex = Len(C13_Order)
    /\ pc = "aborted" =>
          /\ pc' = "aborted" /\ ret' = ret
          /\ wire' = wire /\ regionIndex' = regionIndex

\* C13: a flash session flashes its regions strictly in the order bootloader
\* at 0x0000, partition table at 0x8000, firmware at 0x10000 (the firmware
\* alone when firmware-only is set) and writes the reboot command only after
\* every region succeeded; when Connect or a region fails the session aborts:
\* no later region, no reboot command, and the error is returned.
C13_SessionOrder == [](C13_State) /\ [][C13_Step]_vars

\* C13 happens: a full session has flashed its three regions and rebooted.
C13_Witness ==
    /\ pc = "done"
    /\ ~firmwareOnlyFlag
    /\ regionIndex = 3
    /\ region.Address = 65536
    /\ ret = [fn |-> "Reboot", err |-> "", block |-> -1]

\* the commands C14 names
C14_Pos == {"attach", "params", "begin"}

\* the error Connect / FlashImageCompressed return when the command at p failed
C14_StepError(p) ==
    CASE p = "attach" -> "failed to attach SPI flash"
      [] p = "params" -> "failed to set flash params"
      [] p = "begin"  -> "flash defl begin failed"

\* the answer was a frame that DecodeResponse rejects: the command fails with
\* the parser's error and the session aborts
C14_ParserErrorAborts(errs) ==
    \A p \in C14_Pos :
        (pc = Returned(p) /\ lastResp.err \in errs) =>
            /\ pc' = "aborted"
            /\ sendErr' = lastResp.err
            /\ ret'.err = C14_StepError(p)
            /\ wire' = wire

\* C14 as stated: a frame received in answer to SPI_ATTACH, SPI_SET_PARAMS or
\* FLASH_DEFL_BEGIN that fails to decode (content shorter than 10 bytes,
\* direction byte other than 0x01, declared length larger than the bytes)
\* makes the command fail with the parser error and the session abort.
C14_DecodeFailureFails ==
    [][ /\ \A p \in C14_Pos :
              (pc = Reading(p) /\ dropped' > dropped) =>
                  (pc' = Returned(p) /\ lastResp'.err = "response too short")
        /\ C14_ParserErrorAborts({"response too short", "invalid direction byte",
                                  "data size mismatch"}) ]_vars

\* C14, amended: a frame with a direction byte other than 0x01 or with a
\* declared length larger than the bytes makes the command fail with the
\* parser error and the session abort; a frame whose decoded content is
\* shorter than 10 bytes is passed over by readResponse, which keeps waiting
\* for a further frame until its deadline, and DecodeResponse's "too short"
\* error is never returned.
C14_DecodeErrors ==
    /\ [](lastResp.err # "response too short")
    /\ [][ /\ \A p \in C14_Pos :
                 (pc = Reading(p) /\ dropped' > dropped) =>
                     (pc' = pc /\ lastResp' = lastResp /\ wire' = wire /\ ret' = ret)
           /\ C14_ParserErrorAborts({"invalid direction byte", "data size mismatch"}) ]_vars

\* C14 happens: FLASH_DEFL_BEGIN was answered by a frame whose declared
\* length exceeds its bytes, and FlashImageCompressed returned its error.
C14_Witness ==
    /\ pc = "aborted"
    /\ ret.err = "flash defl begin failed"
    /\ sendErr = "data size mismatch"

\* text contains sub
Contains(text, sub) ==
    \E i \in 0..(Len(text) - Len(sub)) : SubSeq(text, i + 1, i + Len(sub)) = sub

\* the value of a hexadecimal digit
C15_HexVal(c) ==
    CASE c = "0" -> 0 [] c = "1" -> 1 [] c = "2" -> 2 [] c = "3" -> 3
      [] c = "4" -> 4 [] c = "5" -> 5 [] c = "6" -> 6 [] c = "7" -> 7
      [] c = "8" -> 8 [] c = "9" -> 9 [] c = "A" -> 10 [] c = "B" -> 11
      [] c = "C" -> 12 [] c = "D" -> 13 [] c = "E" -> 14 [] c = "F" -> 15
      [] OTHER -> -1

\* text contains label, then 0x and two hexadecimal digits that read as v
C15_HasHex(text, label, v) ==
    \E i \in 0..(Len(text) - Len(label) - 4) :
        /\ SubSeq(text, i + 1, i + Len(label)) = label
        /\ text[i + Len(label) + 1] = "0" /\ text[i + Len(label) + 2] = "x"
        /\ C15_HexVal(text[i + Len(label) + 3]) >= 0
        /\ C15_HexVal(text[i + Len(label) + 4]) >= 0
        /\ 16 * C15_HexVal(text[i + Len(label) + 3]) + C15_HexVal(text[i + Len(label) + 4]) = v

\* the taxonomy names of the error codes
C15_Name(code) ==
    CASE code = 5  -> <<"i", "n", "v", "a", "l", "i", "d", " ", "m", "e", "s", "s", "a", "g", "e">>
      [] code = 6  -> <<"f", "a", "i", "l", "e", "d", " ", "t", "o", " ", "a", "c", "t">>
      [] code = 7  -> <<"i", "n", "v", "a", "l", "i", "d", " ", "C", "R", "C">>
      [] code = 8  -> <<"f", "l", "a", "s", "h", " ", "w", "r", "i", "t", "e", " ", "e", "r", "r", "o", "r">>
      [] code = 9  -> <<"f", "l", "a", "s", "h", " ", "r", "e", "a", "d", " ", "e", "r", "r", "o", "r">>
      [] code = 10 -> <<"f", "l", "a", "s", "h", " ", "r", "e", "a", "d", " ", "l", "e", "n", "g", "t", "h", " ", "e", "r", "r", "o", "r">>
      [] code = 11 -> <<"d", "e", "f", "l", "a", "t", "e", " ", "e", "r", "r", "o", "r">>
      [] OTHER     -> <<"u", "n", "k", "n", "o", "w", "n", " ", "e", "r", "r", "o", "r">>

\* C15: a response with status != 0 or error != 0 makes the command fail
\* with an error whose text holds the request opcode in hexadecimal, the
\* status byte and the error byte in hexadecimal and the taxonomy name of the
\* error code (0x05..0x0B by name, any other code 'unknown error'); for
\* status=1, error=0x07 the text holds "0x01" and "invalid CRC".
C15_ErrorText ==
    fnPc = "checked" =>
        LET cmd == fnIn[1]
            st  == fnIn[2]
            er  == fnIn[3]
        IN  IF st = 0 /\ er = 0
            THEN fnOut = <<>>
            ELSE /\ fnOut # <<>>
                 /\ C15_HasHex(fnOut, <<"c", "o", "m", "m", "a", "n", "d", " ">>, cmd)
                 /\ C15_HasHex(fnOut, <<"s", "t", "a", "t", "u", "s", "=">>, st)
                 /\ C15_HasHex(fnOut, <<"e", "r", "r", "o", "r", "=">>, er)
                 /\ Contains(fnOut, C15_Name(er))
                 /\ (st = 1 /\ er = 7) =>
                       /\ Contains(fnOut, <<"0", "x", "0", "1">>)
                       /\ Contains(fnOut, <<"0", "x", "0", "7">>)
                       /\ Contains(fnOut, <<"i", "n", "v", "a", "l", "i", "d", " ", "C", "R", "C">>)

\* C15 happens: SPI_ATTACH was answered with status=1, error=0x07 and the
\* error text was built.
C15_Witness ==
    /\ fnPc = "checked"
    /\ fnIn = <<13, 1, 7>>
    /\ Contains(fnOut, <<"i", "n", "v", "a", "l", "i", "d", " ", "C", "R", "C">>)

\* the calls of ResetToBootloader recorded so far (the first calls of Connect)
C16_Calls == SubSeq(wire, 1, Min(Len(wire), Len(ResetSeq)))

\* the (RTS, DTR) state after the last line call of w, from both lines low
RECURSIVE C16_Lines(_)
C16_Lines(w) ==
    IF w = <<>> THEN <<FALSE, FALSE>>
    ELSE LET s == C16_Lines(SubSeq(w, 1, Len(w) - 1))
             e == w[Len(w)]
         IN  <<IF e.op = "rts" THEN e.arg ELSE s[1], IF e.op = "dtr" THEN e.arg ELSE s[2]>>

\* what the recording port holds: the (RTS, DTR) state after every call of
\* SetRTS or SetDTR that changed it
RECURSIVE C16_Recorded(_)
C16_Recorded(w) ==
    IF w = <<>> THEN <<>>
    ELSE LET before == SubSeq(w, 1, Len(w) - 1)
             e      == w[Len(w)]
         IN  IF e.op \in {"rts", "dtr"} /\ C16_Lines(w) # C16_Lines(before)
             THEN Append(C16_Recorded(before), C16_Lines(w))
             ELSE C16_Recorded(before)

\* the states of the reset table, RTS first
C16_Table == << <<TRUE, FALSE>>, <<FALSE, TRUE>>, <<TRUE, FALSE>>, <<FALSE, FALSE>> >>

C16_Holds == <<100, 50, 50>>

C16_Sleeps(w) == Len(SelectSeq(w, LAMBDA e : e.op = "sleep"))

C16_LineCalls(w) == Len(SelectSeq(w, LAMBDA e : e.op \in {"rts", "dtr"}))

\* a hold or the flush of ResetToBootloader happens in the table's state: the
\* k-th sleep finds the lines in the k-th state and lasts the k-th hold, and
\* the flush finds the lines in the final state, after every line call
C16_Step ==
    (pc = "reset" /\ Len(wire') = Len(wire) + 1) =>
        LET e == wire'[Len(wire')]
            k == C16_Sleeps(wire) + 1
        IN  /\ (e.op = "sleep" /\ k <= 3) =>
                  /\ <<rts, dtr>> = C16_Table[k]
                  /\ e.arg = C16_Holds[k]
                  /\ C16_LineCalls(wire) = 2 * k
            /\ e.op = "flush" =>
                  /\ <<rts, dtr>> = C16_Table[4]
                  /\ k = 4
                  /\ C16_LineCalls(wire) = 8
            /\ (e.op = "sleep" /\ k = 4) => wire[Len(wire)].op = "flush"
            /\ e.op \in {"rts", "dtr"} => k <= 4 /\ C16_LineCalls(wire) < 8

\* a finished ResetToBootloader made three holds, one flush and left both
\* lines low; the record of line changes passes through every state of the
\* table in order
C16_Done ==
    (InConnect /\ pc \notin {"reset", "aborted"}) =>
        /\ Len(C16_Calls) = Len(ResetSeq)
        /\ C16_Sleeps(C16_Calls) = 4
        /\ Len(SelectSeq(C16_Calls, LAMBDA e : e.op = "flush")) = 1
        /\ C16_Lines(C16_Calls) = C16_Table[4]
        /\ C16_Recorded(C16_Calls) =
              << C16_Table[1], <<FALSE, FALSE>>, C16_Table[2], <<TRUE, TRUE>>,
                 C16_Table[3], C16_Table[4] >>

\* C16 as stated: the port that records the (RTS, DTR) state after every line
\* change observes ResetToBootloader produce exactly the states (1,0), (0,1),
\* (1,0), (0,0), and the input buffer is flushed only after the final state.
C16_ExactStates ==
    (InConnect /\ pc \notin {"reset", "aborted"}) =>
        /\ C16_Recorded(C16_Calls) = C16_Table
        /\ \A i \in 1..Len(C16_Calls) :
              C16_Calls[i].op = "flush" => C16_Lines(SubSeq(C16_Calls, 1, i)) = C16_Table[4]

\* C16 (amended): the lines are in the states (1,0), (0,1), (1,0) at the
\* holds of 100, 50 and 50 ms and in (0,0) when the input buffer is flushed,
\* which happens only after the last line call; RTS being driven before DTR,
\* the record of every line change also holds (0,0) and (1,1) in between.
C16_ResetChoreography == [](C16_Done) /\ [][C16_Step]_vars

\* C16 happens: ResetToBootloader has run to its end and the sync loop began.
C16_Witness ==
    /\ pc = "sync"
    /\ Len(wire) = Len(ResetSeq)
    /\ wire[12].op = "flush"
    /\ rts = FALSE /\ dtr = FALSE

\* the first position of d, from position i on, that holds 0xC0 (end = TRUE)
\* or another byte (end = FALSE); 0 when there is none or i = 0
C17_First(d, i, end) ==
    LET hits == {j \in i..Len(d) : (d[j] = 192) = end}
    IN  IF i = 0 \/ hits = {} THEN 0
        ELSE CHOOSE j \in hits : \A k \in hits : j <= k

C17_Opening(d) == C17_First(d, 1, TRUE)

C17_Content(d) == C17_First(d, C17_Opening(d), FALSE)

C17_Closing(d) == C17_First(d, C17_Content(d), TRUE)

\* d is one frame: 0xC0, at least one byte other than 0xC0, 0xC0
C17_IsFrame(d) ==
    /\ Len(d) >= 3
    /\ d[1] = 192 /\ d[Len(d)] = 192
    /\ \A i \in 2..(Len(d) - 1) : d[i] # 192

C17_ExtractStep == fnPc \in {"buffer", "frame", "more"} /\ fnPc' \in {"frame", "none"}

\* an extraction from a buffer that holds a complete frame returns the bytes
\* from the first 0xC0 to the first 0xC0 after a byte other than 0xC0, and
\* keeps the tail; a buffer of 0xC0 bytes only yields no frame
C17_Step ==
    C17_ExtractStep =>
        LET d == fnOut.buffer
        IN  /\ C17_Closing(d) # 0 =>
                  /\ fnPc' = "frame"
                  /\ fnOut'.frames = Append(fnOut.frames, SubSeq(d, C17_Opening(d), C17_Closing(d)))
                  /\ fnOut'.buffer = SubSeq(d, C17_Closing(d) + 1, Len(d))
            /\ (d # <<>> /\ \A i \in 1..Len(d) : d[i] = 192) =>
                  /\ fnPc' = "none"
                  /\ fnOut'.frames = fnOut.frames

\* back-to-back frames come out one by one, in order, and leave nothing
C17_InOrder ==
    \A k \in 1..Len(fnIn) :
        LET f1 == SubSeq(fnIn, 1, k)
            f2 == SubSeq(fnIn, k + 1, Len(fnIn))
        IN  (C17_IsFrame(f1) /\ C17_IsFrame(f2)) =>
               /\ Len(fnOut.frames) <= 2
               /\ Len(fnOut.frames) >= 1 => fnOut.frames[1] = f1
               /\ Len(fnOut.frames) = 1 => fnOut.buffer = f2
               /\ Len(fnOut.frames) = 2 => fnOut.frames[2] = f2 /\ fnOut.buffer = <<>>
               /\ fnPc = "none" => Len(fnOut.frames) = 2

\* C17: on a buffer that holds a complete frame, ReadFrame drops what is
\* before the first 0xC0, takes a run of 0xC0 before the first other byte as
\* part of the opening (0xC0 bytes alone are no frame), closes at the first
\* 0xC0 after at least one other byte, and returns the opening through the
\* closing 0xC0 with the tail after it; repeated extraction over back-to-back
\* frames returns each frame in order.
C17_ReadFrame == [](C17_InOrder) /\ [][C17_Step]_vars

\* C17 happens: [D,a,b,D,D,b,a,D] gave [D,a,b,D] and then [D,b,a,D].
C17_Witness ==
    /\ fnIn = <<192, 219, 1, 192, 192, 1, 219, 192>>
    /\ fnOut.frames = << <<192, 219, 1, 192>>, <<192, 1, 219, 192>> >>
    /\ fnOut.buffer = <<>>

\* an extraction from a buffer without a complete frame returns no frame and
\* leaves the buffer as it was
C18_Unchanged ==
    (C17_ExtractStep /\ C17_Closing(fnOut.buffer) = 0) =>
        /\ fnPc' = "none"
        /\ fnOut' = fnOut

\* the buffer was left with an opened frame and its content, the closing
\* 0xC0 was appended: the next extraction returns the frame with the bytes
\* kept from before
C18_Completes ==
    (fnPc = "more" /\ fnPc' \in {"frame", "none"}) =>
        LET d   == fnOut.buffer
            old == SubSeq(d, 1, Len(d) - 1)
        IN  /\ C17_Closing(old) = 0
            /\ (C17_Content(old) # 0 /\ d[Len(d)] = 192) =>
                  /\ fnPc' = "frame"
                  /\ fnOut'.frames =
                        Append(fnOut.frames, Append(SubSeq(old, C17_Opening(old), Len(old)), 192))
                  /\ fnOut'.buffer = <<>>

\* C18: when the buffer holds no complete frame (no 0xC0, 0xC0 bytes only,
\* or an opening 0xC0 and content without a closing 0xC0) ReadFrame returns
\* no frame and the buffer unchanged, so that appending later bytes and
\* calling again completes the frame.
C18_NoFrameYet == [][C18_Unchanged /\ C18_Completes]_vars

\* C18 happens: [1, D, E, 1] gave no frame and was kept whole, then the
\* closing D was appended.
C18_Witness ==
    /\ fnPc = "more"
    /\ fnIn = <<1, 192, 219, 1, 192>>
    /\ fnOut = [frames |-> <<>>, buffer |-> fnIn]

C19_Ends(d) == Len(SelectSeq(d, LAMBDA b : b = 192))

RECURSIVE C19_EndsIn(_)
C19_EndsIn(frames) ==
    IF frames = <<>> THEN 0
    ELSE C19_Ends(frames[1]) + C19_EndsIn(SubSeq(frames, 2, Len(frames)))

\* one extraction: a returned frame and the remainder are the buffer less a
\* prefix without 0xC0; without a frame the remainder is the whole buffer
C19_Step ==
    C17_ExtractStep =>
        LET d == fnOut.buffer
        IN  IF fnPc' = "frame"
            THEN /\ Len(fnOut'.frames) = Len(fnOut.frames) + 1
                 /\ \E n \in 0..Len(d) :
                       /\ \A i \in 1..n : d[i] # 192
                       /\ d = SubSeq(d, 1, n) \o fnOut'.frames[Len(fnOut'.frames)] \o fnOut'.buffer
            ELSE /\ fnOut'.frames = fnOut.frames
                 /\ fnOut'.buffer = d

\* over all extractions no 0xC0 received is lost
C19_State == C19_Ends(fnIn) = C19_EndsIn(fnOut.frames) + C19_Ends(fnOut.buffer)

\* C19: ReadFrame never loses bytes that could belong to a future frame; when
\* it returns a frame the buffer is g ++ frame ++ remainder with no 0xC0 in
\* the dropped prefix g, and when it returns none the remainder is the whole
\* buffer.
C19_NoLoss == [](C19_State) /\ [][C19_Step]_vars

\* C19 happens: from [1, D, D, E, D, D, 1] the prefix [1] was dropped, the
\* frame [D, D, E, D] returned and [D, 1] kept.
C19_Witness ==
    /\ fnPc = "frame"
    /\ fnIn = <<1, 192, 192, 219, 192, 192, 1>>
    /\ fnOut.frames = << <<192, 192, 219, 192>> >>
    /\ fnOut.buffer = <<192, 1>>

\* how many of the first n bytes of p are 0xC0 or 0xDB
C20_Specials(p, n) == Cardinality({i \in 1..n : p[i] \in {192, 219}})

\* where the encoding of p[i] starts in the output
C20_At(p, i) == 1 + i + C20_Specials(p, i - 1)

\* C20: slip.Encode(p) is 0xC0, the bytes of p in order with 0xC0 replaced
\* by 0xDB 0xDC, 0xDB by 0xDB 0xDD and every other byte kept, and 0xC0; the
\* empty payload gives 0xC0 0xC0, and 0xC0 is only the first and the last
\* byte of the output.
C20_EncodeForm ==
    fnPc = "encoded" =>
        /\ Len(fnOut) = Len(fnIn) + C20_Specials(fnIn, Len(fnIn)) + 2
        /\ fnOut[1] = 192 /\ fnOut[Len(fnOut)] = 192
        /\ \A i \in 1..Len(fnIn) :
              LET at == C20_At(fnIn, i)
              IN  CASE fnIn[i] = 192 -> fnOut[at] = 219 /\ fnOut[at + 1] = 220
                    [] fnIn[i] = 219 -> fnOut[at] = 219 /\ fnOut[at + 1] = 221
                    [] OTHER         -> fnOut[at] = fnIn[i]
        /\ fnIn = <<>> => fnOut = <<192, 192>>
        /\ \A j \in 2..(Len(fnOut) - 1) : fnOut[j] # 192

\* C20 happens: [D, 1, E] was encoded to [D, E, 0xDC, 1, E, 0xDD, D].
C20_Witness ==
    /\ fnPc = "encoded"
    /\ fnIn = <<192, 1, 219>>
    /\ fnOut = <<192, 219, 220, 1, 219, 221, 192>>

\* f without its leading and its trailing 0xC0 bytes
C21_Strip(f) ==
    LET kept == {i \in 1..Len(f) : f[i] # 192}
    IN  IF kept = {} THEN <<>>
        ELSE SubSeq(f, CHOOSE i \in kept : \A j \in kept : i <= j,
                       CHOOSE i \in kept : \A j \in kept : i >= j)

\* the scan of the claim, byte by byte from the left
RECURSIVE C21_Scan(_)
C21_Scan(d) ==
    IF d = <<>> THEN <<>>
    ELSE IF d[1] = 219 /\ Len(d) >= 2
    THEN << CASE d[2] = 220 -> 192 [] d[2] = 221 -> 219 [] OTHER -> d[2] >>
         \o C21_Scan(SubSeq(d, 3, Len(d)))
    ELSE <<d[1]>> \o C21_Scan(Tail(d))

\* C21: slip.Decode drops every leading and every trailing 0xC0 and scans the
\* rest from the left: 0xDB 0xDC gives 0xC0, 0xDB 0xDD gives 0xDB, 0xDB and
\* another byte x gives x, any other byte is copied; a frame without content
\* between its delimiters, or of fewer than 2 bytes, decodes to empty.
C21_DecodeForm ==
    fnPc = "payload" =>
        /\ fnOut = IF Len(fnIn) < 2 THEN <<>> ELSE C21_Scan(C21_Strip(fnIn))
        /\ (\A i \in 1..Len(fnIn) : fnIn[i] = 192) => fnOut = <<>>

\* C21 happens: [D, E, 0, E, 0xDC] (an unknown escape, then an escaped
\* 0xC0) was decoded to [0, 0xC0].
C21_Witness ==
    /\ fnPc = "payload"
    /\ fnIn = <<192, 219, 0, 219, 220>>
    /\ fnOut = <<0, 192>>

\* bit k of byte b
C22_Bit(b, k) == (b \div (2 ^ k)) % 2

\* 0xEF XORed with every byte of p, bit by bit: a bit of the result is the
\* parity of that bit over 0xEF and the bytes of p
C22_Expected(p) ==
    LET bit(k) == (C22_Bit(239, k) + Cardinality({i \in 1..Len(p) : C22_Bit(p[i], k) = 1})) % 2
    IN  bit(0) + 2 * bit(1) + 4 * bit(2) + 8 * bit(3)
        + 16 * bit(4) + 32 * bit(5) + 64 * bit(6) + 128 * bit(7)

\* C22: the checksum of NewRequest is 0xEF XORed with every payload byte, in
\* 8 bits, zero-extended to 32 bits: it is in 0..255, 0xEF for the empty
\* payload, and depends neither on the opcode nor on the order of the bytes.
C22_Checksum ==
    fnPc = "request" =>
        /\ fnOut.req.Checksum = C22_Expected(fnIn.data)
        /\ fnOut.req.Checksum \in 0..255
        /\ fnIn.data = <<>> => fnOut.req.Checksum = 239
        /\ fnIn.data = <<1>> => fnOut.req.Checksum = 238
        /\ fnIn.data = <<1, 2, 3>> => fnOut.req.Checksum = 239

\* C22 happens: the checksum of the payload [1, 2, 3] of a FLASH_DEFL_DATA
\* request was computed, 0xEF.
C22_Witness ==
    /\ fnPc = "request"
    /\ fnIn.cmd = 17
    /\ fnIn.data = <<1, 2, 3>>
    /\ fnOut.req.Checksum = 239

\* C23: Request.Encode of a request with opcode c and a payload p of
\* N <= 65535 bytes is 8+N bytes: 0x00, c, N in little-endian 16 bits, the
\* checksum in little-endian 32 bits, then p.
C23_EncodeLayout ==
    (fnPc = "request" /\ Len(fnIn.data) <= 65535) =>
        LET N      == Len(fnIn.data)
            packet == fnOut.packet
        IN  /\ Len(packet) = 8 + N
            /\ packet[1] = 0
            /\ packet[2] = fnIn.cmd
            /\ packet[3] + 256 * packet[4] = N
            /\ packet[3] \in 0..255 /\ packet[4] \in 0..255
            /\ packet[5] = C22_Expected(fnIn.data)
            /\ packet[6] = 0 /\ packet[7] = 0 /\ packet[8] = 0
            /\ \A i \in 1..N : packet[8 + i] = fnIn.data[i]

\* C23 happens: a SYNC-opcode request with a payload of 300 bytes was
\* encoded, its size field being 0x2C 0x01.
C23_Witness ==
    /\ fnPc = "request"
    /\ fnIn.cmd = 8
    /\ Len(fnIn.data) = 300
    /\ Len(fnOut.packet) = 308
    /\ fnOut.packet[3] = 44 /\ fnOut.packet[4] = 1

C24_None == [Command |-> 0, Data |-> <<>>, Value |-> 0, Status |-> 0, Error |-> 0]

\* C24: DecodeResponse returns an error and no response exactly when the
\* input has fewer than 10 bytes (too short), or byte 0 is not 0x01 (wrong
\* direction), or the declared payload length at bytes 2..3 exceeds
\* len(input) - 8 (size mismatch); otherwise it returns a response whose
\* Command is byte 1 and whose Value is the little-endian 32 bits at bytes 4..7.
C24_DecodeResponse ==
    fnPc = "response" =>
        LET d        == fnIn.data
            short    == Len(d) < 10
            wrongDir == Len(d) >= 1 /\ d[1] # 1
            mismatch == Len(d) >= 4 /\ d[3] + 256 * d[4] > Len(d) - 8
        IN  /\ (fnOut.err # "") <=> (short \/ wrongDir \/ mismatch)
            /\ fnOut.err # "" => fnOut.resp = C24_None
            /\ fnOut.err = "response too short" => short
            /\ fnOut.err = "invalid direction byte" => wrongDir
            /\ fnOut.err = "data size mismatch" => mismatch
            /\ fnOut.err \in {"", "response too short", "invalid direction byte", "data size mismatch"}
            /\ fnOut.err = "" =>
                  /\ fnOut.resp.Command = d[2]
                  /\ fnOut.resp.Value = d[5] + 256 * (d[6] + 256 * (d[7] + 256 * d[8]))

\* C24 happens: a 10-byte response of opcode 0x11 with the value 0x12345678
\* and a declared size of 2 was parsed.
C24_Witness ==
    /\ fnPc = "response"
    /\ Len(fnIn.data) = 10
    /\ SubSeq(fnIn.data, 1, 8) = <<1, 17, 2, 0, 120, 86, 52, 18>>
    /\ fnOut.err = ""
    /\ fnOut.resp.Command = 17
    /\ fnOut.resp.Value = 305419896

\* C25: for a response with declared payload length n, when n >= 2 status
\* and error are the last two bytes of the declared payload and Data the n-2
\* bytes before them; when n is 0 or 1 status and error are zero and Data is
\* the n declared bytes; IsSuccess holds if and only if status = 0 and
\* error = 0.
C25_StatusSplit ==
    (fnPc = "response" /\ fnOut.err = "") =>
        LET d == fnIn.data
            n == d[3] + 256 * d[4]
            r == fnOut.resp
        IN  /\ n >= 2 =>
                  /\ r.Status = d[8 + n - 1]
                  /\ r.Error = d[8 + n]
                  /\ r.Data = [i \in 1..(n - 2) |-> d[8 + i]]
            /\ n < 2 =>
                  /\ r.Status = 0 /\ r.Error = 0
                  /\ r.Data = [i \in 1..n |-> d[8 + i]]
            /\ fnOut.success <=> (r.Status = 0 /\ r.Error = 0)

\* C25 happens: a response declaring 4 payload bytes 1, 0, 0, 1 was parsed
\* into the data [1, 0], status 0 and error 1, and is no success.
C25_Witness ==
    /\ fnPc = "response"
    /\ fnOut.err = ""
    /\ Len(fnIn.data) = 12
    /\ SubSeq(fnIn.data, 3, 4) = <<4, 0>>
    /\ SubSeq(fnIn.data, 9, 12) = <<1, 0, 0, 1>>
    /\ fnOut.resp.Data = <<1, 0>>
    /\ fnOut.resp.Status = 0 /\ fnOut.resp.Error = 1
    /\ ~fnOut.success

\* ceil(L / unit) for a length L below 2^48 given by its limbs and a unit
\* that divides 65536, as a low part below 65536 and a high part counted in
\* 65536s (which may itself exceed 65535)
C26_Ceil(L, unit) ==
    LET per  == 65536 \div unit
        low  == (L[1] \div unit) + per * (L[2] % unit) + (IF L[1] % unit # 0 THEN 1 ELSE 0)
        high == (L[2] \div unit) + per * L[3]
    IN  [lo |-> low % 65536, hi |-> high + (low \div 65536)]

\* the number of whole units in a uint32 given by its limbs, in the same form
C26_Units(R, unit) ==
    [lo |-> (R[1] \div unit) + (65536 \div unit) * (R[2] % unit), hi |-> R[2] \div unit]

\* R is ceil(L/4096) * 4096
C26_IsRoundedUp(R, L) ==
    /\ R[1] % 4096 = 0 /\ R[3] = 0 /\ R[4] = 0
    /\ C26_Units(R, 4096) = C26_Ceil(L, 4096)

\* L <= 2^32 - 4096
C26_Fits(L) == C26_Ceil(L, 4096).hi < 16

\* C26 as stated: for every length L >= 0, CalculateEraseSize(L) is
\* ceil(L/4096) * 4096 (a multiple of 4096, at least L, less than L + 4096,
\* 0 for L = 0), and both definitions of the package agree.
C26_AllLengths ==
    fnPc = "sizes" =>
        /\ C26_IsRoundedUp(fnOut.erase, fnIn.len)
        /\ fnIn.len = <<0, 0, 0, 0>> => fnOut.erase = <<0, 0, 0, 0>>
        /\ fnOut.eraseC3 = fnOut.erase

\* C26 (amended): for every length L from 0 to 2^32 - 4096,
\* CalculateEraseSize(L) is ceil(L/4096) * 4096 (a multiple of 4096, at least
\* L, less than L + 4096, 0 for L = 0), and both definitions of the package
\* agree for every such L.
C26_EraseSize ==
    (fnPc = "sizes" /\ C26_Fits(fnIn.len)) =>
        /\ C26_IsRoundedUp(fnOut.erase, fnIn.len)
        /\ fnIn.len = <<0, 0, 0, 0>> => fnOut.erase = <<0, 0, 0, 0>>
        /\ fnOut.eraseC3 = fnOut.erase

\* C26 happens: the erase size of 2^32 - 4097 bytes was computed, the
\* largest there is, 2^32 - 4096.
C26_Witness ==
    /\ fnPc = "sizes"
    /\ fnIn.len = <<61439, 65535, 0, 0>>
    /\ fnOut.erase = <<61440, 65535, 0, 0>>
    /\ fnOut.eraseC3 = fnOut.erase

\* B is ceil(L/1024)
C27_IsCount(B, L) ==
    LET c == C26_Ceil(L, 1024)
    IN  B = <<c.lo, c.hi, 0, 0>>

\* L <= 2^42 - 1024
C27_Fits(L) == C26_Ceil(L, 1024).hi < 65536

\* for a length within the checker's integers: n is 0 for 0 and otherwise
\* the least n with n * 1024 >= L
C27_Least(B, L) ==
    (L[2] < 16384 /\ L[3] = 0 /\ L[4] = 0) =>
        LET len == L[1] + 65536 * L[2]
            n   == B[1] + 65536 * B[2]
        IN  /\ len = 0 => n = 0
            /\ len > 0 => n * 1024 >= len /\ (n - 1) * 1024 < len

\* C27 as stated: for every length L >= 0 and block size 1024 the block
\* count is ceil(L/1024), 0 for L = 0 and otherwise the least n with
\* n * 1024 >= L, and CalculateDeflBlocks(L, 1024) = CalculateFlashBlocks(L).
C27_AllLengths ==
    fnPc = "sizes" =>
        /\ C27_IsCount(fnOut.deflBlocks, fnIn.len)
        /\ C27_Least(fnOut.deflBlocks, fnIn.len)
        /\ fnOut.flashBlocks = fnOut.deflBlocks

\* C27 (amended): for every length L from 0 to 2^42 - 1024 and block size
\* 1024 the block count is ceil(L/1024), 0 for L = 0 and otherwise the least
\* n with n * 1024 >= L, and CalculateDeflBlocks(L, 1024) and
\* CalculateFlashBlocks(L) agree for every such L.
C27_BlockCount ==
    (fnPc = "sizes" /\ C27_Fits(fnIn.len)) =>
        /\ C27_IsCount(fnOut.deflBlocks, fnIn.len)
        /\ C27_Least(fnOut.deflBlocks, fnIn.len)
        /\ fnOut.flashBlocks = fnOut.deflBlocks

\* C27 happens: 1025 bytes were counted as 2 blocks by both functions.
C27_Witness ==
    /\ fnPc = "sizes"
    /\ fnIn.len = <<1025, 0, 0, 0>>
    /\ fnOut.deflBlocks = <<2, 0, 0, 0>>
    /\ fnOut.flashBlocks = <<2, 0, 0, 0>>

\* the little-endian 32 bits at positions i..i+3 of d
C28_Field(d, i) == d[i] + 256 * (d[i + 1] + 256 * (d[i + 2] + 256 * d[i + 3]))

\* C28: FlashDeflDataData(block, seq) is exactly 16 + len(block) bytes: the
\* little-endian 32-bit fields len(block), seq, 0, 0 and then the block as
\* it is; a block shorter than 1024 bytes is not padded.
C28_DeflData ==
    fnPc = "block" =>
        /\ Len(fnOut) = 16 + Len(fnIn.block)
        /\ \A i \in 1..16 : fnOut[i] \in 0..255
        /\ C28_Field(fnOut, 1) = Len(fnIn.block)
        /\ C28_Field(fnOut, 5) = fnIn.seq
        /\ C28_Field(fnOut, 9) = 0
        /\ C28_Field(fnOut, 13) = 0
        /\ \A i \in 1..Len(fnIn.block) : fnOut[16 + i] = fnIn.block[i]

\* C28 happens: the payload of a last block of 452 bytes with sequence
\* number 2 was built, 468 bytes.
C28_Witness ==
    /\ fnPc = "block"
    /\ Len(fnIn.block) = 452
    /\ fnIn.seq = 2
    /\ Len(fnOut) = 468
    /\ SubSeq(fnOut, 1, 8) = <<196, 1, 0, 0, 2, 0, 0, 0>>

\* the payloads of the two functions, for both values of the flag
C29_Payloads ==
    /\ FlashEndData(TRUE) = <<0, 0, 0, 0>>
    /\ FlashEndData(FALSE) = <<1, 0, 0, 0>>
    /\ FlashDeflEndData(TRUE) = <<0, 0, 0, 0>>
    /\ FlashDeflEndData(FALSE) = <<1, 0, 0, 0>>

\* what the flasher has written (the opcode is the third byte of a frame,
\* after 0xC0 and the direction): a FLASH_DEFL_END always carries 1, and a
\* FLASH_END is written by Reboot only and carries 0
C29_Written ==
    \A i \in 1..Len(wire) :
        (wire[i].op = "write" /\ wire[i].arg[3] \in {4, 18}) =>
            LET d == Header(wire[i].arg)
            IN  /\ d[2] = wire[i].arg[3]
                /\ d[2] = 18 => (~InReboot /\ d = <<0, 18, 4, 0>> \o SubSeq(d, 5, 8) \o <<1, 0, 0, 0>>)
                /\ d[2] = 4  => ( InReboot /\ d = <<0, 4, 4, 0>> \o SubSeq(d, 5, 8) \o <<0, 0, 0, 0>>)

\* C29: the 4-byte payloads of FLASH_END and FLASH_DEFL_END hold the flag
\* inverted, 0 for reboot=true and 1 for reboot=false (stay in bootloader);
\* the flasher sends 1 in every per-region FLASH_DEFL_END and 0 only in the
\* final FLASH_END of Reboot.
C29_EndValues == C29_Payloads /\ C29_Written

\* C29 happens: after the last region, whose FLASH_DEFL_END was written,
\* Reboot wrote its FLASH_END and finished.
C29_Witness ==
    /\ pc = "done"
    /\ ret = [fn |-> "Reboot", err |-> "", block |-> -1]
    /\ regionIndex = Len(Regions)
    /\ Header(wire[1].arg) = <<0, 4, 4, 0, 239, 0, 0, 0, 0, 0, 0, 0>>

\* the SYNC request on the wire, byte by byte
C30_Frame ==
    <<192, 0, 8, 36, 0, 221, 0, 0, 0, 7, 7, 18, 32>> \o [i \in 1..32 |-> 85] \o <<192>>

\* the frames written while sync runs: those before the first SPI_ATTACH
C30_SyncWrites ==
    SelectSeq(wire, LAMBDA e : e.op = "write" /\ e.arg[3] \notin {13, 11})

\* C30: the SYNC request written to the port is 0xC0, direction 0x00, opcode
\* 0x08, length 0x24 0x00, checksum 0xDD 0x00 0x00 0x00, the 36-byte payload
\* 07 07 12 20 and 32 bytes 0x55, and 0xC0; it holds no escape sequence and
\* is the same on every sync attempt.
C30_SyncFrame ==
    InConnect =>
        /\ \A i \in 1..Len(C30_SyncWrites) : C30_SyncWrites[i].arg = C30_Frame
        /\ \A i \in 1..Len(C30_Frame) : C30_Frame[i] # 219
        /\ pc \in {"sync_read", "sync_resp", "sync_drain"} =>
              /\ Len(C30_SyncWrites) = attempt + 1
              /\ wire[Len(ResetSeq) + 2] = [op |-> "write", arg |-> C30_Frame]

\* C30 happens: a third sync attempt wrote the SYNC request again.
C30_Witness ==
    /\ InConnect
    /\ pc = "sync_read"
    /\ attempt = 2
    /\ Len(C30_SyncWrites) = 3
    /\ C30_SyncWrites[3].arg = C30_Frame

\* the opcode of the digest command
CmdSpiFlashMD5 == 19

\* the SPI_FLASH_MD5 requests among the frames written for the region so far
C31_MD5Writes ==
    SelectSeq(wire, LAMBDA e : e.op = "write" /\ e.arg[3] = CmdSpiFlashMD5)

\* C31: in a default run, when FlashImageCompressed has returned nil for a
\* region (the run goes on to report the flash as complete), an SPI_FLASH_MD5
\* request for that region was written after its data.
C31_VerifiedBeforeComplete ==
    (pc = "flashed" /\ ret = [fn |-> "FlashImageCompressed", err |-> "", block |-> -1])
        => Len(C31_MD5Writes) > 0

\* what C32 asks of a result for the input data
C32_Asked(data, res) ==
    IF Len(data) >= 4
    THEN /\ res.err = ""
         /\ res.ChipID[1] = data[1] + 256 * data[2]
         /\ res.ChipID[2] = data[3] + 256 * data[4]
    ELSE res.err # ""

\* C32: ParseSecurityInfo returns, for every input of at least 4 bytes, the
\* little-endian 32-bit value of the first four bytes as the chip ID, and an
\* error for every shorter input. Both definitions of the package are asked.
C32_ParseSecurityInfo ==
    fnPc = "info" =>
        /\ C32_Asked(fnIn.data, fnOut.info)
        /\ C32_Asked(fnIn.data, fnOut.infoC3)

\* the part of C32 that the definition of packet.go meets
C32_PacketGo == fnPc = "info" => C32_Asked(fnIn.data, fnOut.info)

RECURSIVE C33_TotalBlocks(_)
\* the total number of blocks of the regions
C33_TotalBlocks(sizes) ==
    IF sizes = <<>> THEN 0
    ELSE CalculateFlashBlocks(sizes[1]) + C33_TotalBlocks(Tail(sizes))

\* the caller's callback has been invoked once for each acknowledged block,
\* with the blocks completed so far and the total, and no invocation is
\* still running or has ended the process
C33_Invoked ==
    /\ fnPc \notin {"closure", "overflow"}
    /\ Len(fnOut.calls) = fnOut.acked
    /\ \A i \in 1..Len(fnOut.calls) :
          fnOut.calls[i] = <<i, C33_TotalBlocks(fnIn.sizes)>>

\* C33: while flashing, after each acknowledged data block the progress
\* callback the caller supplied is invoked exactly once with (blocks
\* completed so far, total blocks) and the invocation returns, for one
\* region (FlashImage) and for several (FlashMultiple).
C33_ProgressReported == fnIn.observer => C33_Invoked

\* the part of C33 that FlashImage on its own meets
C33_SingleRegion == (fnIn.observer /\ ~fnIn.multi) => C33_Invoked

\* the positions of sync's drain loop
C34_Draining == {"sync_drain", "drain_read", "drain_resp"}

\* a read of the drain loop is one of at most 7
C34_State ==
    InConnect =>
        /\ drain <= 7
        /\ pc \in {"drain_read", "drain_resp"} => drain < 7

\* a step of the drain loop writes nothing, takes what its read returned
\* without looking at it, and leaves the loop only to go on with SPI_ATTACH
C34_Step ==
    pc \in C34_Draining =>
        /\ wire' = wire
        /\ ret' = ret
        /\ pc' \in C34_Draining \cup {"attach"}
        /\ pc' = "attach" => pc = "sync_drain" /\ drain = 7
        /\ pc = "drain_resp" => pc' = "sync_drain" /\ drain' = drain + 1
        /\ (pc = "sync_drain" /\ drain < 7) => pc' \in {"sync_drain", "drain_read"}

\* C34: after the first successful SYNC response, sync makes 7 more reads
\* and never more, writes no further frame, and returns success whether
\* those reads time out, fail to decode or carry a failing status.
C34_Drain == [](C34_State) /\ [][C34_Step]_vars

\* C34 happens: the seventh read of the drain loop returned a response
\* with a failing status.
C34_Witness ==
    /\ InConnect
    /\ pc = "drain_resp"
    /\ drain = 6
    /\ lastResp.err = ""
    /\ lastResp.resp.Status = 1

\* a response sendCommandWithTimeout takes as success
C35_Ok(r) == r.err = "" /\ r.resp.Status = 0 /\ r.resp.Error = 0

\* the positions at which FLASH_DEFL_BEGIN has not yet returned
C35_Beginning == {"begin", "begin_read", "begin_resp"}

\* seq is the number of blocks accepted so far: no block beyond it has been
\* written, none at all while FLASH_DEFL_BEGIN has not returned success, and
\* FLASH_DEFL_END only once every block is accepted
C35_State ==
    InFlash =>
        LET s == DataSeqs(wire)
            n == (Len(region.Comp) + 1023) \div 1024
        IN  /\ \A i \in 1..Len(s) : s[i] <= seq
            /\ pc \in {"block_read", "block_resp"} => s[Len(s)] = seq
            /\ (pc \in C35_Beginning \/ ret.err = "flash defl begin failed")
                  => Len(s) = 0 /\ Len(WritesOf(wire, 18)) = 0
            /\ Len(WritesOf(wire, 18)) > 0 => seq = n
            /\ seq <= n

\* seq advances, and FLASH_DEFL_BEGIN is left for the blocks, only on a
\* success response taken by sendCommandWithTimeout
C35_Step ==
    (region # NoRegion /\ region' = region) =>
        /\ (pc \in C35_Beginning /\ pc' \notin C35_Beginning) =>
              IF pc = "begin_resp" /\ C35_Ok(lastResp)
              THEN pc' = "block" /\ seq' = 0
              ELSE pc' = "aborted"
        /\ (pc \notin C35_Beginning /\ seq' # seq) =>
              pc = "block_resp" /\ C35_Ok(lastResp) /\ seq' = seq + 1

\* C35: within FlashImageCompressed no FLASH_DEFL_DATA frame is written
\* unless the region's FLASH_DEFL_BEGIN returned success, block k+1 is
\* written only after a success response was accepted for block k, and
\* FLASH_DEFL_END is written only after the last block was accepted.
C35_Gated == [](C35_State) /\ [][C35_Step]_vars

\* C35 happens: block 0 was accepted, block 1 was accepted at its second
\* attempt, and FLASH_DEFL_END has been written.
C35_Witness ==
    /\ InFlash
    /\ pc = "end_read"
    /\ DataSeqs(wire) = <<0, 1, 1>>
    /\ Len(WritesOf(wire, 18)) = 1

\* sendCommand returns at position p on a response that echoes another
\* opcode than the command's
C36_ForeignEcho(p) ==
    /\ pc = Returned(p)
    /\ lastResp.err = ""
    /\ lastResp.resp.Command # RequestAt(p).Command

\* a response that echoes another opcode is not taken as the answer: the
\* command is not reported successful on it
C36_Step ==
    \A p \in SendPos : (C36_ForeignEcho(p) /\ pc' # pc) => sendErr' # ""

\* C36: a command sent through sendCommand is reported successful only on a
\* response frame whose opcode echo (byte 1) equals the command's opcode; a
\* success response that echoes a different opcode is never accepted as the
\* answer to the current command.
C36_EchoMatches == [][C36_Step]_vars

\* C37: frame extraction does not depend on how the stream is cut into
\* reads: appending the chunks one at a time and extracting with
\* slip.ReadFrame after each append until no frame is returned yields, for
\* every split, the frames that repeated extraction over the bytes read so
\* far, taken at once, yields (and the same unconsumed rest); at the end of
\* the stream these are the frames of the whole stream.
C37_ChunkIndependent ==
    fnPc = "chunk" =>
        LET read  == SumLengths(fnOut.chunks)
            whole == ExtractAll(<<>>, SubSeq(fnIn, 1, read))
        IN  /\ fnOut.frames = whole.frames
            /\ fnOut.buffer = whole.buffer

\* C37 happens: a stream of two frames was read in three chunks that cut
\* both frames, and both were extracted.
C37_Witness ==
    /\ fnPc = "chunk"
    /\ fnIn = <<192, 1, 192, 192, 1, 192>>
    /\ fnOut.chunks = <<2, 2, 2>>
    /\ fnOut.frames = << <<192, 1, 192>>, <<192, 1, 192>> >>
    /\ fnOut.buffer = <<>>

\* the places in the trace of the port at which a FLASH_DEFL_DATA frame is
\* written again: the same frame was written before
C38_Rewrites ==
    {i \in 1..Len(wire) :
        /\ wire[i].op = "write"
        /\ wire[i].arg[3] = 17
        /\ \E j \in 1..(i - 1) : wire[j] = wire[i]}

\* C38 as claimed: after a failed attempt to send a FLASH_DEFL_DATA block the
\* flasher flushes the input buffer and then waits 100 ms, in that order,
\* before the same block is written again.
C38_FlushThenWait ==
    InFlash =>
        \A i \in C38_Rewrites :
            /\ i > 3
            /\ wire[i - 3] = wire[i]
            /\ wire[i - 2] = [op |-> "flush", arg |-> 0]
            /\ wire[i - 1] = [op |-> "sleep", arg |-> 100]

\* C38, amended: after a failed attempt to send a FLASH_DEFL_DATA block the
\* flasher waits 100 ms and then flushes the input buffer, in that order,
\* and the same block is written again right after the flush.
C38_WaitThenFlush ==
    InFlash =>
        \A i \in C38_Rewrites :
            /\ i > 3
            /\ wire[i - 3] = wire[i]
            /\ wire[i - 2] = [op |-> "sleep", arg |-> 100]
            /\ wire[i - 1] = [op |-> "flush", arg |-> 0]

\* C38 happens: the first attempt of block 1 failed and the block has been
\* written a second time.
C38_Witness ==
    /\ InFlash
    /\ pc = "block_read"
    /\ seq = 1
    /\ attempt = 1
    /\ Len(wire) \in C38_Rewrites

\* an ESP32-C3 was identified on the port: it opened, reset and synced, and
\* its answer to GET_SECURITY_INFO carries the chip ID 0x05
C39_IsC3(port) ==
    /\ port.open /\ port.reset /\ port.sync
    /\ getChipID(port) = [err |-> "", ChipID |-> <<5, 0>>]

\* the ports of the list on which an ESP32-C3 was identified
C39_C3Ports == {i \in 1..Len(fnIn.ports) : C39_IsC3(fnIn.ports[i])}

\* C39: DetectDevice tries the listed ports in order and returns a result
\* only for the first port on which an ESP32-C3 (chip ID 0x05) was
\* identified; if no port yields an identified ESP32-C3 it returns an error.
C39_FirstC3 ==
    (fnPc = "returned" /\ ~fnIn.listErr) =>
        IF C39_C3Ports = {}
        THEN fnOut.err # "" /\ fnOut.result = NoResult
        ELSE /\ fnOut.err = ""
             /\ fnOut.result.Port \in C39_C3Ports
             /\ \A i \in C39_C3Ports : fnOut.result.Port <= i
             /\ fnOut.result.ChipID = <<5, 0>>

\* what the code does: the result is that of the first port that opened,
\* reset and synced, whatever its chip
C39_FirstSynced ==
    (fnPc = "returned" /\ ~fnIn.listErr) =>
        LET synced == {i \in 1..Len(fnIn.ports) :
                          fnIn.ports[i].open /\ fnIn.ports[i].reset /\ fnIn.ports[i].sync}
        IN  IF synced = {}
            THEN fnOut.err # "" /\ fnOut.result = NoResult
            ELSE /\ fnOut.err = ""
                 /\ fnOut.result.Port \in synced
                 /\ \A i \in synced : fnOut.result.Port <= i

====
